---- MODULE Spec2Model ----
(***************************************************************************)
(* Sprint report computation and caching pipeline of ProfiFlow/backend:    *)
(* ReportService.generate_sprint_report, generate_team_sprint_report, the  *)
(* report repositories and the LLM service methods they call.              *)
(*                                                                         *)
(* Every request is a cooperative task; one action is one stretch of code  *)
(* between two awaits that touch the shared store (the sprint_reports and  *)
(* team_sprint_reports tables).  Calls to the tracker and to the LLM read  *)
(* no shared state, so a stretch that only calls them is one action whose  *)
(* answers are drawn with \E.                                              *)
(*                                                                         *)
(* Conventions: None is <<>>.  A float is a reduced fraction <<n, d>>.     *)
(* A date is a day number.                                                 *)
(***************************************************************************)
EXTENDS Integers, Sequences, FiniteSets, TLC

VARIABLES
    reports,       \* rows of table sprint_reports
    teamReports,   \* rows of table team_sprint_reports
    nextId,        \* autoincrement of both tables' id columns
    utr,           \* rows of table user_tracker_roles
    scanOrder,     \* the order in which the database returns unordered rows
    proc,          \* per request slot: program counter, locals, call counters
    started,       \* number of requests accepted so far
    storeVer,      \* history: number of commits to sprint_reports so far
    lastDone,      \* history: per (user, sprint) the last returned report
    recIn,         \* SpecRec: the recommendations the model answered
    recOut,        \* SpecRec: what generate_employee_recommendations returned
    argIn,         \* pure functions on their own: the arguments of the call
    argOut,        \* pure functions on their own: <<result>> once called
    setCur,        \* set_current_tracker calls: how many began, each slot's call
    trackers,      \* rows of table trackers
    apiLog         \* history: number of API operations and the last one

vars == <<reports, teamReports, nextId, utr, scanOrder, proc, started,
          storeVer, lastDone, recIn, recOut, argIn, argOut, setCur,
                   trackers, apiLog>>

----------------------------------------------------------------------------
(* Bounds and the small world the requests run in *)

MaxRequests == 3        \* requests accepted in a run of Spec
MaxConcRequests == 2    \* requests accepted in a run of SpecConc
MaxTeamRequests == 2    \* requests accepted in a run of SpecTeam
MaxModelRecs == 4       \* recommendations the model may answer in SpecRec

Procs == {1, 2}
Users == {1, 2}
Trackers == {1, 2}
SprintIds == {1, 2}

None == <<>>

----------------------------------------------------------------------------
(* Floats as reduced fractions *)

RECURSIVE Gcd(_, _)
Gcd(a, b) == IF b = 0 THEN a ELSE Gcd(b, a % b)

Abs(x) == IF x < 0 THEN -x ELSE x

Frac(n, d) ==
    LET g == Gcd(Abs(n), Abs(d))
        s == IF d < 0 THEN -1 ELSE 1
    IN  <<(s * n) \div g, (s * d) \div g>>

Flt(n) == <<n, 1>>
FSub(a, b) == Frac(a[1] * b[2] - b[1] * a[2], a[2] * b[2])
FMul(a, b) == Frac(a[1] * b[1], a[2] * b[2])
FDiv(a, b) == Frac(a[1] * b[2], a[2] * b[1])
FAdd(a, b) == Frac(a[1] * b[2] + b[1] * a[2], a[2] * b[2])
FIsZero(a) == a[1] = 0
FPos(a) == a[1] > 0

(* int(x) of the integer columns: truncation *)
IntColumn(a) == Flt(a[1] \div a[2])

(* str(user.id) *)
Digit == <<"0", "1", "2", "3", "4", "5", "6", "7", "8", "9">>
RECURSIVE str(_)
str(n) == IF n < 10 THEN Digit[n + 1] ELSE str(n \div 10) \o Digit[(n % 10) + 1]

----------------------------------------------------------------------------
(* What the tracker, the clock and the LLM can answer *)

(* GET /v3/sprints/{id} and GET /v2/sprints: Sprint(id, name, startDate,   *)
(* endDate).                                                               *)
TrackerSprints ==
    <<[id |-> 1, name |-> "Sprint 1", start_date |-> 10, end_date |-> 19],
      [id |-> 2, name |-> "Sprint 2", start_date |-> 20, end_date |-> 29]>>

SprintById(sid) ==
    LET hit == {i \in 1..Len(TrackerSprints) : TrackerSprints[i].id = sid}
    IN  TrackerSprints[CHOOSE i \in hit : TRUE]

(* Task(id, story_points, deadline, resolved_at, status.key): deadline is  *)
(* <<day>> or None, resolved_at is <<day, second>> or None.                *)
TaskDone == [id |-> "A", story_points |-> <<5>>, deadline |-> None,
             resolved_at |-> <<12, 0>>, status_key |-> "done"]
TaskOpenLate == [id |-> "B", story_points |-> <<3>>, deadline |-> <<14>>,
                 resolved_at |-> None, status_key |-> "open"]
TaskOpenPlain == [id |-> "C", story_points |-> None, deadline |-> None,
                  resolved_at |-> None, status_key |-> "open"]
TaskDoneDeadline == [id |-> "D", story_points |-> <<2>>, deadline |-> <<18>>,
                     resolved_at |-> <<17, 0>>, status_key |-> "done"]

TaskLists == {<<TaskDone, TaskOpenLate>>, <<TaskOpenPlain>>,
              <<TaskOpenLate, TaskDoneDeadline>>}

(* datetime.utcnow().date() at the time the tasks are processed *)
Todays == {15}

(* get_issue_logged_time: round(total_seconds / 3600, 1), or the request   *)
(* fails (None here).                                                      *)
LoggedAnswers == {Frac(25, 10), None}

HttpFailures == {404, 503}

ActivityTexts == {"analysis a"}

Rec(n) == [title |-> Digit[n + 1], text |-> "advice"]

(* Recommendation.model_dump(): the dict of the two fields *)
ModelDump(r) == [title |-> r.title, text |-> r.text]

RECURSIVE DumpAll(_)
DumpAll(rs) == IF rs = <<>> THEN <<>> ELSE <<ModelDump(Head(rs))>> \o DumpAll(Tail(rs))

(* pydantic's validation of a stored dict back into Recommendation *)
RecommendationOf(d) == [title |-> d.title, text |-> d.text]

RECURSIVE LoadAll(_)
LoadAll(ds) == IF ds = <<>> THEN <<>> ELSE <<RecommendationOf(Head(ds))>> \o LoadAll(Tail(ds))

----------------------------------------------------------------------------
(* ReportService: the pure parts *)

SprintStats(sp, n, missed, avg) ==
    [total_story_points |-> Flt(sp), total_tasks |-> Flt(n),
     deadlines_missed |-> Flt(missed), average_completion_time |-> avg]

(* task.deadline < task.resolved_at: a date against a datetime or None     *)
(* raises TypeError in Python whatever the two values are.                 *)
DateLtResolved(deadline, resolved_at) == "TypeError"

(* The loop of _process_tasks from task i on.  logged is the answer of     *)
(* get_issue_logged_time for this run.  outcome is ok, TypeError or        *)
(* HTTPException; fetched counts the get_issue_logged_time calls made.     *)
RECURSIVE ProcessLoop(_, _, _, _, _, _, _, _)
ProcessLoop(tasks, logged, today, i, sp, missed, total, fetched) ==
    IF i > Len(tasks)
    THEN [outcome |-> "ok", fetched |-> fetched,
          stats |-> SprintStats(sp, Len(tasks), missed,
                       IF Len(tasks) > 0 THEN FDiv(total, Flt(Len(tasks))) ELSE Flt(0))]
    ELSE LET task == tasks[i]
             sp2 == sp + (IF task.story_points # None /\ task.story_points[1] # 0
                          THEN task.story_points[1] ELSE 0)
             done == task.status_key = "done"
             raises == task.deadline # None /\ done
                       /\ DateLtResolved(task.deadline, task.resolved_at) = "TypeError"
             miss == task.deadline # None /\ ~done /\ task.deadline[1] < today
             missed2 == IF miss THEN missed + 1 ELSE missed
         IN  IF raises
             THEN [outcome |-> "TypeError", fetched |-> fetched, stats |-> None]
             ELSE IF done
                  THEN IF logged = None
                       THEN [outcome |-> "HTTPException", fetched |-> fetched + 1,
                             stats |-> None]
                       ELSE ProcessLoop(tasks, logged, today, i + 1, sp2, missed2,
                                        FAdd(total, logged), fetched + 1)
                  ELSE ProcessLoop(tasks, logged, today, i + 1, sp2, missed2,
                                   total, fetched)

_process_tasks(tasks, logged, today) ==
    ProcessLoop(tasks, logged, today, 1, 0, 0, Flt(0), 0)

_calculate_percent_change_zero_base(current, previous) ==
    IF FIsZero(previous)
    THEN Flt(0)
    ELSE FMul(FDiv(FSub(current, previous), previous), Flt(100))

_calculate_percent_change(current, previous) ==
    IF FIsZero(previous)
    THEN (IF FPos(current) THEN Flt(100) ELSE Flt(0))
    ELSE FMul(FDiv(FSub(current, previous), previous), Flt(100))

_create_metric_comparison_truthy(current, previous) ==
    [current |-> current,
     previous |-> previous,
     change_percent |-> IF previous # None /\ ~FIsZero(previous)
                        THEN _calculate_percent_change(current, previous)
                        ELSE None]

_create_metric_comparison(current, previous) ==
    [current |-> current,
     previous |-> previous,
     change_percent |-> IF previous # None
                        THEN _calculate_percent_change(current, previous)
                        ELSE None]

(* The four comparisons of a current stats bundle against a previous report row *)
CompareAll(sp, n, missed, avg, prev_report) ==
    LET has == prev_report # None
        pr == prev_report[1]
    IN  [story_points_closed |->
            _create_metric_comparison(sp, IF has THEN pr.story_points_closed ELSE None),
         tasks_completed |->
            _create_metric_comparison(n, IF has THEN pr.tasks_completed ELSE None),
         deadlines_missed |->
            _create_metric_comparison(missed, IF has THEN pr.deadlines_missed ELSE None),
         average_task_completion_time |->
            _create_metric_comparison(avg,
                IF has THEN pr.average_task_completion_time ELSE None)]

generate_all_recommendations(model_recs) == model_recs

(* generate_employee_recommendations: response_obj.recommendations[:3] *)
generate_employee_recommendations(model_recs) ==
    SubSeq(model_recs, 1, IF Len(model_recs) < 3 THEN Len(model_recs) ELSE 3)

----------------------------------------------------------------------------
(* ReportRepository and UserRepository queries *)

(* q.scalars().first() of a query with no ORDER BY, or with ties in it *)
FirstRow(rows) ==
    IF rows = {} THEN None
    ELSE <<CHOOSE r \in rows : \A o \in rows :
             IF scanOrder = "asc" THEN r.id <= o.id ELSE r.id >= o.id>>

MatchingReports(user_id, tracker_id, sprint_id) ==
    {r \in reports : r.user_id = user_id /\ r.tracker_id = tracker_id
                     /\ r.sprint_id = sprint_id}

get_sprint_report_by_id(user_id, tracker_id, sprint_id) ==
    FirstRow(MatchingReports(user_id, tracker_id, sprint_id))

(* the query with <= in place of < *)
get_previous_sprint_report_inclusive(user_id, tracker_id, sprint_start_date) ==
    LET cand == {r \in reports : r.user_id = user_id /\ r.tracker_id = tracker_id
                                 /\ r.sprint_start_date <= sprint_start_date}
        latest == {r \in cand : \A o \in cand : o.sprint_start_date <= r.sprint_start_date}
    IN  FirstRow(latest)

get_previous_sprint_report(user_id, tracker_id, sprint_start_date) ==
    LET cand == {r \in reports : r.user_id = user_id /\ r.tracker_id = tracker_id
                                 /\ r.sprint_start_date < sprint_start_date}
        latest == {r \in cand : \A o \in cand : o.sprint_start_date <= r.sprint_start_date}
    IN  FirstRow(latest)

get_team_sprint_report_by_id(tracker_id, sprint_id) ==
    FirstRow({r \in teamReports : r.tracker_id = tracker_id /\ r.sprint_id = sprint_id})

(* (tracker, role) of the user's is_current association, or None *)
get_user_current_tracker(user_id) ==
    LET cur == {a \in utr : a.user_id = user_id /\ a.is_current}
    IN  IF cur = {} THEN None
        ELSE LET a == CHOOSE a \in cur : \A o \in cur : a.tracker_id <= o.tracker_id
             IN  <<a.tracker_id, a.role>>

RECURSIVE SortedSeq(_)
SortedSeq(S) ==
    IF S = {} THEN <<>>
    ELSE LET m == CHOOSE x \in S : \A y \in S : x <= y
         IN  <<m>> \o SortedSeq(S \ {m})

(* the users bound to the tracker, as a list *)
get_users_for_tracker(tracker_id) ==
    SortedSeq({a.user_id : a \in {b \in utr : b.tracker_id = tracker_id}})

----------------------------------------------------------------------------
(* Requests *)

DisplayName(u) == "user " \o str(u)

NoCalls == [taskFetch |-> 0, logged |-> 0, llm |-> 0, writes |-> 0, hit |-> FALSE]
NoTotals == [tracker |-> 0, llm |-> 0, rate |-> 0, teamReads |-> 0,
             teamWrites |-> 0, indWrites |-> 0, subDone |-> 0]

IdleProc ==
    [pc |-> "idle", kind |-> "none", requester |-> 0, sprint_id |-> 0,
     user |-> 0, tracker_id |-> 0, sprint |-> None, stats |-> None,
     existing |-> None, metrics |-> None, activity |-> "", recs |-> <<>>,
     saveRow |-> None, ret |-> None, err |-> None,
     inv |-> NoCalls, tot |-> NoTotals, prior |-> None,
     t_tracker |-> 0, t_users |-> <<>>, t_idx |-> 0, t_sprint |-> None,
     t_prev |-> None, emp |-> <<>>, prev_emp |-> <<>>, final |-> <<>>,
     t_saveRow |-> None, t_ret |-> None, rated |-> <<>>]

Exc(type, code, why) == <<[type |-> type, code |-> code, why |-> why]>>

(* The locals a finished call no longer needs are dropped *)
ClearIndividual(q) ==
    [q EXCEPT !.sprint = None, !.stats = None, !.existing = None,
              !.metrics = None, !.activity = "", !.recs = <<>>, !.saveRow = None]

Finished(q, pc) ==
    [ClearIndividual(q) EXCEPT
              !.pc = pc, !.t_users = <<>>, !.t_idx = 0, !.t_sprint = None,
              !.t_prev = None, !.emp = <<>>, !.prev_emp = <<>>, !.final = <<>>,
              !.t_saveRow = None]

Raise(q, type, code, why) ==
    [Finished(q, "failed") EXCEPT !.err = Exc(type, code, why)]

(* Entry of generate_sprint_report(user, sprint_id, current_user_id).       *)
(* prior is history: the report the last call for this user and sprint     *)
(* returned, kept only if sprint_reports was not written since.            *)
EnterIndividual(q, user) ==
    [q EXCEPT !.pc = "i_prepare", !.user = user, !.tracker_id = 0,
              !.sprint = None, !.stats = None, !.existing = None,
              !.metrics = None, !.activity = "", !.recs = <<>>,
              !.saveRow = None, !.ret = None, !.inv = NoCalls,
              !.prior = LET last == lastDone[<<user, q.sprint_id>>]
                        IN  IF last # None /\ last[1].ver = storeVer
                            THEN last ELSE None]

Set(p, q) == proc' = [proc EXCEPT ![p] = q]

(* user_tracker_roles: user 1 manages tracker 1, user 2 is an employee of it *)
TeamOfTwo ==
    {[user_id |-> 1, tracker_id |-> 1, role |-> "manager", is_current |-> TRUE],
     [user_id |-> 2, tracker_id |-> 1, role |-> "employee", is_current |-> TRUE]}

(* trackers: two connections, one known by its cloud, one by its organization *)
TwoTrackers ==
    {[id |-> 1, yandex_cloud_id |-> <<"c1">>, yandex_org_id |-> None],
     [id |-> 2, yandex_cloud_id |-> None, yandex_org_id |-> <<"o1">>]}

(* No API operation on trackers and roles has run *)
NoApi == [n |-> 0, last |-> [op |-> "none", user |-> 0, tracker |-> 0,
                             target |-> 0, status |-> 0]]

(* A set_current_tracker call that has not begun *)
IdleCall ==
    [pc |-> "idle", user_id |-> 0, tracker_id |-> 0, role |-> "employee",
     snapshot |-> {}, locked |-> {}, assoc |-> None, err |-> None,
     current |-> {}]

NoSetCalls == [begun |-> 0, call |-> [p \in Procs |-> IdleCall]]

Init ==
    /\ reports = {}
    /\ teamReports = {}
    /\ nextId = 1
    /\ utr = TeamOfTwo
    /\ scanOrder \in {"asc", "desc"}
    /\ proc = [p \in Procs |-> IdleProc]
    /\ started = 0
    /\ storeVer = 0
    /\ lastDone = [k \in Users \X SprintIds |-> None]
    /\ recIn = <<>>
    /\ recOut = None
    /\ argIn = None
    /\ argOut = None
    /\ setCur = NoSetCalls
    /\ trackers = TwoTrackers
    /\ apiLog = NoApi

(* get_current_user_id only decodes the token: its subject is a user of    *)
(* the users table, or the id of a user that has no record.                *)
TokenSubjects == Users \cup {3}

(* UserRepository.get_by_id *)
get_by_id(user_id) == IF user_id \in Users THEN <<user_id>> ELSE None

(* POST /reports: the endpoint looks the authenticated user up and calls   *)
(* generate_sprint_report for them; without a user record it raises        *)
(* HTTPException(404) inside its try block.                                *)
AcceptIndividual(p, max) ==
    /\ proc[p].pc \in {"idle", "done", "failed"}
    /\ started < max
    /\ \E u \in TokenSubjects, s \in SprintIds :
         LET q == [IdleProc EXCEPT !.kind = "ind", !.requester = u, !.sprint_id = s]
         IN  IF get_by_id(u) = None
             THEN Set(p, Raise(q, "HTTPException", 404, "user"))
             ELSE Set(p, EnterIndividual(q, u))
    /\ started' = started + 1
    /\ UNCHANGED <<reports, teamReports, nextId, utr, scanOrder, storeVer,
                   lastDone, recIn, recOut, argIn, argOut, setCur,
                   trackers, apiLog>>

StartIndividual(p) == AcceptIndividual(p, MaxRequests)

StartConcurrent(p) == AcceptIndividual(p, MaxConcRequests)

(* The gateway resolves the requester's token and organisation first:      *)
(* without a current tracker user.org_id is never set and the attribute    *)
(* error becomes HTTPException(500).                                       *)
GatewayReady(requester) == get_user_current_tracker(requester) # None

(* generate_sprint_report lines 52-64: get_sprint, the user's current      *)
(* tracker, get_sprint_tasks, _process_tasks.                              *)
Prepare(p) ==
    LET q == proc[p] IN
    /\ q.pc = "i_prepare"
    /\ \E sprintFail \in {0} \cup HttpFailures, tasksFail \in {0} \cup HttpFailures,
          tasks \in TaskLists, logged \in LoggedAnswers, today \in Todays :
         LET ti == get_user_current_tracker(q.user)
             res == _process_tasks(tasks, logged, today)
             q1 == [q EXCEPT !.tot.tracker = @ + 1]
             q2 == [q1 EXCEPT !.tot.tracker = @ + 1, !.inv.taskFetch = @ + 1]
             q3 == [q2 EXCEPT !.tot.tracker = @ + res.fetched,
                              !.inv.logged = @ + res.fetched]
         IN  IF ~GatewayReady(q.requester)
             THEN Set(p, Raise(q1, "HTTPException", 500, "token"))
             ELSE IF sprintFail # 0
             THEN Set(p, Raise(q1, "HTTPException", sprintFail, "sprint"))
             ELSE IF ti = None
             THEN Set(p, Raise(q1, "ValueError", 0, "tracker"))
             ELSE IF tasksFail # 0
             THEN Set(p, Raise(q2, "HTTPException", tasksFail, "tasks"))
             ELSE IF res.outcome = "TypeError"
             THEN Set(p, Raise(q3, "TypeError", 0, "deadline"))
             ELSE IF res.outcome = "HTTPException"
             THEN Set(p, Raise(q3, "HTTPException", 503, "worklog"))
             ELSE Set(p, [q3 EXCEPT !.pc = "i_check",
                                    !.sprint = <<SprintById(q.sprint_id)>>,
                                    !.tracker_id = ti[1],
                                    !.stats = <<res.stats>>])
    /\ UNCHANGED <<reports, teamReports, nextId, utr, scanOrder, started,
                   storeVer, lastDone, recIn, recOut, argIn, argOut, setCur,
                   trackers, apiLog>>

CheckExistingNeverFound(p) ==
    LET q == proc[p] IN
    /\ q.pc = "i_check"
    /\ Set(p, [q EXCEPT !.existing = None, !.pc = "i_miss"])
    /\ UNCHANGED <<reports, teamReports, nextId, utr, scanOrder, started,
                   storeVer, lastDone, recIn, recOut, argIn, argOut, setCur,
                   trackers, apiLog>>

(* line 67: is there a report for this sprint already *)
CheckExisting(p) ==
    LET q == proc[p]
        existing_report == get_sprint_report_by_id(q.user, q.tracker_id, q.sprint_id)
    IN
    /\ q.pc = "i_check"
    /\ Set(p, [q EXCEPT !.existing = existing_report,
                        !.pc = IF existing_report # None THEN "i_hit" ELSE "i_miss"])
    /\ UNCHANGED <<reports, teamReports, nextId, utr, scanOrder, started,
                   storeVer, lastDone, recIn, recOut, argIn, argOut, setCur,
                   trackers, apiLog>>

SprintReport(user, name, start, end, m, activity, recs) ==
    [user_id |-> user, employee_name |-> DisplayName(user), sprint_name |-> name,
     sprint_start_date |-> start, sprint_end_date |-> end,
     story_points_closed |-> m.story_points_closed,
     tasks_completed |-> m.tasks_completed,
     deadlines_missed |-> m.deadlines_missed,
     average_task_completion_time |-> m.average_task_completion_time,
     activity_analysis |-> activity, recommendations |-> recs]

(* generate_sprint_report returns: to the endpoint, or to the loop of      *)
(* generate_team_sprint_report.                                            *)
Return(p, q, report) ==
    Set(p, IF q.kind = "team"
           THEN [ClearIndividual(q) EXCEPT !.pc = "t_collect", !.ret = <<report>>]
           ELSE [Finished(q, "done") EXCEPT !.ret = <<report>>])

(* lines 68-99: the stored report, compared with its previous sibling *)
ReturnStored(p) ==
    LET q == proc[p]
        er == q.existing[1]
        prev_report == get_previous_sprint_report(q.user, q.tracker_id,
                                                  er.sprint_start_date)
        m == CompareAll(er.story_points_closed, er.tasks_completed,
                        er.deadlines_missed, er.average_task_completion_time,
                        prev_report)
        report == SprintReport(er.user_id, er.sprint_name, er.sprint_start_date,
                               er.sprint_end_date, m, er.activity_analysis,
                               LoadAll(er.recommendations))
    IN
    /\ q.pc = "i_hit"
    /\ Return(p, [q EXCEPT !.inv.hit = TRUE], report)
    /\ lastDone' = [lastDone EXCEPT ![<<q.user, q.sprint_id>>] =
                      <<[tracker_id |-> q.tracker_id, ver |-> storeVer, ret |-> report]>>]
    /\ UNCHANGED <<reports, teamReports, nextId, utr, scanOrder, started,
                   storeVer, recIn, recOut, argIn, argOut, setCur,
                   trackers, apiLog>>

(* lines 102-123: the previous report and the four comparisons *)
LoadPrevious(p) ==
    LET q == proc[p]
        st == q.stats[1]
        prev_report == get_previous_sprint_report(q.user, q.tracker_id,
                                                  q.sprint[1].start_date)
    IN
    /\ q.pc = "i_miss"
    /\ Set(p, [q EXCEPT !.pc = "i_llm",
                        !.metrics = <<CompareAll(st.total_story_points, st.total_tasks,
                                        st.deadlines_missed, st.average_completion_time,
                                        prev_report)>>])
    /\ UNCHANGED <<reports, teamReports, nextId, utr, scanOrder, started,
                   storeVer, lastDone, recIn, recOut, argIn, argOut, setCur,
                   trackers, apiLog>>

ModelRecAnswers ==
    {<<Rec(1), Rec(2)>>, <<Rec(4), Rec(3), Rec(2), Rec(1)>>}

AnalyzeSwallowingFailure(p) ==
    LET q == proc[p] IN
    /\ q.pc = "i_llm"
    /\ \/ Set(p, [q EXCEPT !.pc = "i_save", !.inv.llm = @ + 1, !.tot.llm = @ + 1])
       \/ Set(p, Raise([q EXCEPT !.inv.llm = @ + 2, !.tot.llm = @ + 2],
                       "ConnectionError", 0, "recommendations"))
       \/ \E text \in ActivityTexts, model_recs \in ModelRecAnswers :
            Set(p, [q EXCEPT !.pc = "i_save", !.inv.llm = @ + 2, !.tot.llm = @ + 2,
                             !.activity = text,
                             !.recs = generate_employee_recommendations(model_recs)])
    /\ UNCHANGED <<reports, teamReports, nextId, utr, scanOrder, started,
                   storeVer, lastDone, recIn, recOut, argIn, argOut, setCur,
                   trackers, apiLog>>

(* lines 125-130: analyze_employee_activity, then                          *)
(* generate_employee_recommendations; either may raise ConnectionError.    *)
Analyze(p) ==
    LET q == proc[p] IN
    /\ q.pc = "i_llm"
    /\ \/ Set(p, Raise([q EXCEPT !.inv.llm = @ + 1, !.tot.llm = @ + 1],
                       "ConnectionError", 0, "activity"))
       \/ Set(p, Raise([q EXCEPT !.inv.llm = @ + 2, !.tot.llm = @ + 2],
                       "ConnectionError", 0, "recommendations"))
       \/ \E text \in ActivityTexts, model_recs \in ModelRecAnswers :
            Set(p, [q EXCEPT !.pc = "i_save", !.inv.llm = @ + 2, !.tot.llm = @ + 2,
                             !.activity = text,
                             !.recs = generate_employee_recommendations(model_recs)])
    /\ UNCHANGED <<reports, teamReports, nextId, utr, scanOrder, started,
                   storeVer, lastDone, recIn, recOut, argIn, argOut, setCur,
                   trackers, apiLog>>

(* save_or_update_sprint_report lines 11-18: the select; scalar_one_or_none *)
(* raises MultipleResultsFound on more than one row.                        *)
SaveSelect(p) ==
    LET q == proc[p]
        rows == MatchingReports(q.user, q.tracker_id, q.sprint_id)
    IN
    /\ q.pc = "i_save"
    /\ IF Cardinality(rows) > 1
       THEN Set(p, Raise(q, "MultipleResultsFound", 0, "sprint_reports"))
       ELSE Set(p, [q EXCEPT !.pc = "i_commit", !.saveRow = FirstRow(rows)])
    /\ UNCHANGED <<reports, teamReports, nextId, utr, scanOrder, started,
                   storeVer, lastDone, recIn, recOut, argIn, argOut, setCur,
                   trackers, apiLog>>

NewReportRow(id, q) ==
    LET m == q.metrics[1] IN
    [id |-> id, user_id |-> q.user, tracker_id |-> q.tracker_id,
     sprint_id |-> q.sprint_id, sprint_name |-> q.sprint[1].name,
     sprint_start_date |-> q.sprint[1].start_date,
     sprint_end_date |-> q.sprint[1].end_date,
     story_points_closed |-> m.story_points_closed.current,
     tasks_completed |-> IntColumn(m.tasks_completed.current),
     deadlines_missed |-> IntColumn(m.deadlines_missed.current),
     average_task_completion_time |-> m.average_task_completion_time.current,
     activity_analysis |-> q.activity,
     recommendations |-> DumpAll(q.recs)]

UpdatedReportRow(row, q) ==
    LET m == q.metrics[1] IN
    [row EXCEPT !.story_points_closed = m.story_points_closed.current,
                !.tasks_completed = IntColumn(m.tasks_completed.current),
                !.deadlines_missed = IntColumn(m.deadlines_missed.current),
                !.average_task_completion_time = m.average_task_completion_time.current,
                !.activity_analysis = q.activity,
                !.recommendations = DumpAll(q.recs)]

(* The table after save_or_update_sprint_report's commit *)
save_or_update_sprint_report(q) ==
    IF q.saveRow = None
    THEN reports \cup {NewReportRow(nextId, q)}
    ELSE {IF r.id = q.saveRow[1].id THEN UpdatedReportRow(r, q) ELSE r : r \in reports}

(* save_or_update_sprint_report lines 19-44 and the return, lines 147-159 *)
SaveCommit(p) ==
    LET q == proc[p]
        sp == q.sprint[1]
        report == SprintReport(q.user, sp.name, sp.start_date, sp.end_date,
                               q.metrics[1], q.activity, q.recs)
    IN
    /\ q.pc = "i_commit"
    /\ reports' = save_or_update_sprint_report(q)
    /\ nextId' = IF q.saveRow = None THEN nextId + 1 ELSE nextId
    /\ storeVer' = storeVer + 1
    /\ Return(p, [q EXCEPT !.inv.writes = @ + 1, !.tot.indWrites = @ + 1], report)
    /\ lastDone' = [lastDone EXCEPT ![<<q.user, q.sprint_id>>] =
                      <<[tracker_id |-> q.tracker_id, ver |-> storeVer', ret |-> report]>>]
    /\ UNCHANGED <<teamReports, utr, scanOrder, started, recIn, recOut, argIn, argOut, setCur,
                   trackers, apiLog>>

----------------------------------------------------------------------------
(* generate_team_sprint_report *)

(* POST /reports/team *)
StartTeam(p) ==
    /\ proc[p].pc \in {"idle", "done", "failed"}
    /\ started < MaxTeamRequests
    /\ \E u \in Users, s \in SprintIds :
         Set(p, [IdleProc EXCEPT !.pc = "t_role", !.kind = "team",
                                 !.requester = u, !.sprint_id = s])
    /\ started' = started + 1
    /\ UNCHANGED <<reports, teamReports, nextId, utr, scanOrder, storeVer,
                   lastDone, recIn, recOut, argIn, argOut, setCur,
                   trackers, apiLog>>

TeamRoleUnchecked(p) ==
    LET q == proc[p]
        tracker_info == get_user_current_tracker(q.requester)
    IN
    /\ q.pc = "t_role"
    /\ IF tracker_info = None
       THEN Set(p, Raise(q, "ValueError", 0, "tracker"))
       ELSE Set(p, [q EXCEPT !.pc = "t_check", !.t_tracker = tracker_info[1]])
    /\ UNCHANGED <<reports, teamReports, nextId, utr, scanOrder, started,
                   storeVer, lastDone, recIn, recOut, argIn, argOut, setCur,
                   trackers, apiLog>>

(* lines 194-202: the requester's current tracker and role *)
TeamRole(p) ==
    LET q == proc[p]
        tracker_info == get_user_current_tracker(q.requester)
    IN
    /\ q.pc = "t_role"
    /\ IF tracker_info = None
       THEN Set(p, Raise(q, "ValueError", 0, "tracker"))
       ELSE IF tracker_info[2] # "manager"
       THEN Set(p, Raise(q, "ValueError", 0, "role"))
       ELSE Set(p, [q EXCEPT !.pc = "t_check", !.t_tracker = tracker_info[1]])
    /\ UNCHANGED <<reports, teamReports, nextId, utr, scanOrder, started,
                   storeVer, lastDone, recIn, recOut, argIn, argOut, setCur,
                   trackers, apiLog>>

TeamSprintReport(sprint_id, start, end, employee_stats) ==
    [sprint_id |-> sprint_id, sprint_start_date |-> start,
     sprint_end_date |-> end, employee_stats |-> employee_stats]

(* lines 205-215: the stored team report, if any *)
TeamCheck(p) ==
    LET q == proc[p]
        existing_team_report == get_team_sprint_report_by_id(q.t_tracker, q.sprint_id)
        er == existing_team_report[1]
        q1 == [q EXCEPT !.tot.teamReads = @ + 1]
    IN
    /\ q.pc = "t_check"
    /\ IF existing_team_report # None
       THEN Set(p, [Finished(q1, "done") EXCEPT !.t_ret =
                      <<TeamSprintReport(er.sprint_id, er.sprint_start_date,
                                         er.sprint_end_date, er.employee_stats)>>])
       ELSE Set(p, [q1 EXCEPT !.pc = "t_setup"])
    /\ UNCHANGED <<reports, teamReports, nextId, utr, scanOrder, started,
                   storeVer, lastDone, recIn, recOut, argIn, argOut, setCur,
                   trackers, apiLog>>

(* sorted(sprints_objs, key=lambda s: s.start_date): a stable sort *)
RECURSIVE InsertByStart(_, _)
InsertByStart(sorted, s) ==
    IF sorted = <<>> THEN <<s>>
    ELSE IF sorted[Len(sorted)].start_date <= s.start_date
         THEN Append(sorted, s)
         ELSE Append(InsertByStart(SubSeq(sorted, 1, Len(sorted) - 1), s),
                     sorted[Len(sorted)])

RECURSIVE SortByStart(_)
SortByStart(sprints) ==
    IF sprints = <<>> THEN <<>>
    ELSE InsertByStart(SortByStart(SubSeq(sprints, 1, Len(sprints) - 1)),
                       sprints[Len(sprints)])

(* the predecessor in the order the tracker listed the sprints *)
PrevSprintAsListed(sprint_id, all_sprints) ==
    LET hits == {i \in 2..Len(all_sprints) : all_sprints[i].id = sprint_id}
    IN  IF hits = {} THEN None
        ELSE <<all_sprints[(CHOOSE i \in hits : \A j \in hits : i <= j) - 1]>>

(* lines 226-233: the sprint just before sprint_id by start date *)
PrevSprint(sprint_id, all_sprints) ==
    LET sprints_sorted == SortByStart(all_sprints)
        hits == {i \in 2..Len(sprints_sorted) : sprints_sorted[i].id = sprint_id}
    IN  IF hits = {} THEN None
        ELSE <<sprints_sorted[(CHOOSE i \in hits : \A j \in hits : i <= j) - 1]>>

SprintListAnswers == {TrackerSprints}

(* The loop of lines 238-268 moves to its next user, or to the rating *)
NextUser(q, idx) ==
    IF idx > Len(q.t_users)
    THEN [q EXCEPT !.pc = "t_rate", !.t_idx = idx]
    ELSE EnterIndividual([q EXCEPT !.t_idx = idx], q.t_users[idx])

(* lines 218-233: the team's users, the sprint and the previous sprint *)
TeamSetup(p) ==
    LET q == proc[p] IN
    /\ q.pc = "t_setup"
    /\ \E sprintFail \in {0} \cup HttpFailures, listFail \in {0} \cup HttpFailures,
          all_sprints \in SprintListAnswers :
         LET users == get_users_for_tracker(q.t_tracker)
             q1 == [q EXCEPT !.tot.tracker = @ + 1]
             q2 == [q EXCEPT !.tot.tracker = @ + 2]
         IN  IF sprintFail # 0
             THEN Set(p, Raise(q1, "HTTPException", sprintFail, "sprint"))
             ELSE IF listFail # 0
             THEN Set(p, Raise(q2, "HTTPException", listFail, "sprints"))
             ELSE Set(p, NextUser([q2 EXCEPT !.t_users = users,
                                      !.t_sprint = <<SprintById(q.sprint_id)>>,
                                      !.t_prev = PrevSprint(q.sprint_id, all_sprints)],
                                  1))
    /\ UNCHANGED <<reports, teamReports, nextId, utr, scanOrder, started,
                   storeVer, lastDone, recIn, recOut, argIn, argOut, setCur,
                   trackers, apiLog>>

(* lines 241-268: one employee's entry, and the previous sprint's entry    *)
(* if that report is stored                                                *)
TeamCollect(p) ==
    LET q == proc[p]
        user == q.user
        sprint_report == q.ret[1]
        entry == [employee_id |-> str(user), employee_name |-> DisplayName(user),
                  story_points_closed |-> sprint_report.story_points_closed,
                  tasks_completed |-> sprint_report.tasks_completed,
                  deadlines_missed |-> sprint_report.deadlines_missed,
                  average_task_completion_time |->
                      sprint_report.average_task_completion_time]
        prev_stats_report ==
            IF q.t_prev # None
            THEN get_sprint_report_by_id(user, q.t_tracker, q.t_prev[1].id)
            ELSE None
        pr == prev_stats_report[1]
        prev_entry == [employee_id |-> str(user), employee_name |-> DisplayName(user),
                       story_points_closed |-> [current |-> pr.story_points_closed],
                       tasks_completed |-> [current |-> pr.tasks_completed],
                       deadlines_missed |-> [current |-> pr.deadlines_missed],
                       average_task_completion_time |->
                           [current |-> pr.average_task_completion_time]]
        q1 == [q EXCEPT !.emp = Append(@, entry),
                        !.prev_emp = IF prev_stats_report # None
                                     THEN Append(@, prev_entry) ELSE @,
                        !.tot.subDone = @ + 1]
    IN
    /\ q.pc = "t_collect"
    /\ Set(p, NextUser(q1, q.t_idx + 1))
    /\ UNCHANGED <<reports, teamReports, nextId, utr, scanOrder, started,
                   storeVer, lastDone, recIn, recOut, argIn, argOut, setCur,
                   trackers, apiLog>>

(* TeamRatingItem(employee_id: str, rating: 1..5, rating_explanation) *)
RatingItem(id, rating) ==
    [employee_id |-> id, rating |-> rating,
     rating_explanation |-> "rated " \o Digit[rating + 1]]

(* What rate_team_performance can return, the validated ratings list:    *)
(* one employee rated beside an id that is in no team, everybody rated,   *)
(* one id rated twice and the other not at all.                           *)
RatingAnswers ==
    {<<RatingItem("2", 4), RatingItem("7", 1)>>,
     <<RatingItem("1", 5), RatingItem("2", 4)>>,
     <<RatingItem("1", 5), RatingItem("1", 2)>>}

(* What the model can answer before TeamRatingList validates it: also a  *)
(* rating above 5 and a rating below 1.                                   *)
RawRatingAnswers ==
    RatingAnswers \cup {<<RatingItem("1", 6), RatingItem("2", 4)>>,
                        <<RatingItem("1", 5), RatingItem("2", 0)>>}

TeamRatingListUnchecked(ratings) == TRUE

(* TeamRatingList: every item's rating satisfies Field(ge=1, le=5) *)
TeamRatingListValid(ratings) ==
    \A i \in 1..Len(ratings) : ratings[i].rating >= 1 /\ ratings[i].rating <= 5

(* the fixed Russian text of line 292, transliterated *)
FallbackExplanation == "Oshibka AI pri otsenke proizvoditelnosti"

(* rating_map = {str(r["employee_id"]): r for r in llm_result}: the last   *)
(* item of an id wins; None when the id is not in the result.              *)
RatingMapGet(llm_result, rid) ==
    LET hits == {i \in 1..Len(llm_result) : llm_result[i].employee_id = rid}
    IN  IF hits = {} THEN None
        ELSE <<llm_result[CHOOSE i \in hits : \A j \in hits : j <= i]>>

FinalEntryDefaultingLow(emp, llm_result) ==
    LET r == RatingMapGet(llm_result, emp.employee_id)
    IN  [employee_id |-> emp.employee_id, employee_name |-> emp.employee_name,
         story_points_closed |-> emp.story_points_closed,
         tasks_completed |-> emp.tasks_completed,
         deadlines_missed |-> emp.deadlines_missed,
         average_task_completion_time |-> emp.average_task_completion_time,
         rating |-> IF r = None THEN 1 ELSE r[1].rating,
         rating_explanation |-> IF r = None THEN FallbackExplanation
                                ELSE r[1].rating_explanation]

(* lines 286-302 for one employee *)
FinalEntry(emp, llm_result) ==
    LET r == RatingMapGet(llm_result, emp.employee_id)
    IN  [employee_id |-> emp.employee_id, employee_name |-> emp.employee_name,
         story_points_closed |-> emp.story_points_closed,
         tasks_completed |-> emp.tasks_completed,
         deadlines_missed |-> emp.deadlines_missed,
         average_task_completion_time |-> emp.average_task_completion_time,
         rating |-> IF r = None THEN 3 ELSE r[1].rating,
         rating_explanation |-> IF r = None THEN FallbackExplanation
                                ELSE r[1].rating_explanation]

(* the final list with one more entry for every rated id that is no      *)
(* employee of the list                                                   *)
employee_stats_final_with_strangers(employee_stats, llm_result) ==
    LET known == {employee_stats[i].employee_id : i \in 1..Len(employee_stats)}
        SelectStrangers[i \in 0..Len(llm_result)] ==
            IF i = 0 THEN <<>>
            ELSE IF llm_result[i].employee_id \in known \/ employee_stats = <<>>
                 THEN SelectStrangers[i - 1]
                 ELSE Append(SelectStrangers[i - 1],
                             [FinalEntry(employee_stats[1], llm_result) EXCEPT
                                 !.employee_id = llm_result[i].employee_id,
                                 !.rating = llm_result[i].rating])
    IN  [i \in 1..Len(employee_stats) |-> FinalEntry(employee_stats[i], llm_result)]
        \o SelectStrangers[Len(llm_result)]

employee_stats_final(employee_stats, llm_result) ==
    [i \in 1..Len(employee_stats) |-> FinalEntry(employee_stats[i], llm_result)]

TeamRatePerEmployee(p) ==
    LET q == proc[p]
        q1 == [q EXCEPT !.tot.llm = @ + Len(q.emp), !.tot.rate = @ + Len(q.emp)]
    IN
    /\ q.pc = "t_rate"
    /\ \/ Set(p, Raise(q1, "ConnectionError", 0, "rating"))
       \/ \E llm_result \in RawRatingAnswers :
            IF ~TeamRatingListValid(llm_result)
            THEN Set(p, [Raise(q1, "ConnectionError", 0, "rating_invalid")
                           EXCEPT !.rated = llm_result])
            ELSE Set(p, [q1 EXCEPT !.pc = "t_save", !.rated = llm_result,
                                   !.final = employee_stats_final(q.emp, llm_result)])
    /\ UNCHANGED <<reports, teamReports, nextId, utr, scanOrder, started,
                   storeVer, lastDone, recIn, recOut, argIn, argOut, setCur,
                   trackers, apiLog>>

(* lines 271-302: one rating call for the whole team; the answer that    *)
(* fails TeamRatingList's validation raises ConnectionError in            *)
(* _call_llm_structured.                                                  *)
TeamRate(p) ==
    LET q == proc[p]
        q1 == [q EXCEPT !.tot.llm = @ + 1, !.tot.rate = @ + 1]
    IN
    /\ q.pc = "t_rate"
    /\ \/ Set(p, Raise(q1, "ConnectionError", 0, "rating"))
       \/ \E llm_result \in RawRatingAnswers :
            IF ~TeamRatingListValid(llm_result)
            THEN Set(p, [Raise(q1, "ConnectionError", 0, "rating_invalid")
                           EXCEPT !.rated = llm_result])
            ELSE Set(p, [q1 EXCEPT !.pc = "t_save", !.rated = llm_result,
                                   !.final = employee_stats_final(q.emp, llm_result)])
    /\ UNCHANGED <<reports, teamReports, nextId, utr, scanOrder, started,
                   storeVer, lastDone, recIn, recOut, argIn, argOut, setCur,
                   trackers, apiLog>>

(* save_or_update_team_sprint_report lines 78-83: the select *)
TeamSaveSelect(p) ==
    LET q == proc[p] IN
    /\ q.pc = "t_save"
    /\ Set(p, [q EXCEPT !.pc = "t_commit",
                        !.t_saveRow = get_team_sprint_report_by_id(q.t_tracker,
                                                                   q.sprint_id)])
    /\ UNCHANGED <<reports, teamReports, nextId, utr, scanOrder, started,
                   storeVer, lastDone, recIn, recOut, argIn, argOut, setCur,
                   trackers, apiLog>>

(* The table after save_or_update_team_sprint_report's commit *)
save_or_update_team_sprint_report(q) ==
    IF q.t_saveRow = None
    THEN teamReports \cup
           {[id |-> nextId, tracker_id |-> q.t_tracker, sprint_id |-> q.sprint_id,
             sprint_start_date |-> q.t_sprint[1].start_date,
             sprint_end_date |-> q.t_sprint[1].end_date,
             employee_stats |-> q.final]}
    ELSE {IF r.id = q.t_saveRow[1].id
          THEN [r EXCEPT !.sprint_start_date = q.t_sprint[1].start_date,
                         !.sprint_end_date = q.t_sprint[1].end_date,
                         !.employee_stats = q.final]
          ELSE r : r \in teamReports}

(* save_or_update_team_sprint_report lines 84-99 and the return, lines     *)
(* 312-317.  The insert violates _tracker_sprint_uc when another request   *)
(* has stored the team report since the select.                            *)
TeamSaveCommit(p) ==
    LET q == proc[p]
        clash == q.t_saveRow = None
                 /\ get_team_sprint_report_by_id(q.t_tracker, q.sprint_id) # None
    IN
    /\ q.pc = "t_commit"
    /\ IF clash
       THEN /\ Set(p, Raise(q, "IntegrityError", 0, "_tracker_sprint_uc"))
            /\ UNCHANGED <<teamReports, nextId>>
       ELSE /\ teamReports' = save_or_update_team_sprint_report(q)
            /\ nextId' = IF q.t_saveRow = None THEN nextId + 1 ELSE nextId
            /\ Set(p, [Finished([q EXCEPT !.tot.teamWrites = @ + 1], "done")
                         EXCEPT !.final = q.final, !.emp = q.emp, !.t_ret =
                          <<TeamSprintReport(q.sprint_id, q.t_sprint[1].start_date,
                                             q.t_sprint[1].end_date, q.final)>>])
    /\ UNCHANGED <<reports, utr, scanOrder, started, storeVer, lastDone,
                   recIn, recOut, argIn, argOut, setCur,
                   trackers, apiLog>>

----------------------------------------------------------------------------

(* Individual requests, one at a time *)
Next ==
    \E p \in {1} :
       \/ StartIndividual(p)
       \/ Prepare(p)
       \/ CheckExisting(p)
       \/ ReturnStored(p)
       \/ LoadPrevious(p)
       \/ Analyze(p)
       \/ SaveSelect(p)
       \/ SaveCommit(p)

Spec == Init /\ [][Next]_vars

(* Concurrent individual requests: every slot may be at any await *)
NextConc ==
    \E p \in Procs :
       \/ StartConcurrent(p)
       \/ Prepare(p)
       \/ CheckExisting(p)
       \/ ReturnStored(p)
       \/ LoadPrevious(p)
       \/ Analyze(p)
       \/ SaveSelect(p)
       \/ SaveCommit(p)

SpecConc == Init /\ [][NextConc]_vars

(* Team requests, one at a time, each with its per-employee generations *)
NextTeam ==
    \E p \in {1} :
       \/ StartTeam(p)
       \/ TeamRole(p)
       \/ TeamCheck(p)
       \/ TeamSetup(p)
       \/ Prepare(p)
       \/ CheckExisting(p)
       \/ ReturnStored(p)
       \/ LoadPrevious(p)
       \/ Analyze(p)
       \/ SaveSelect(p)
       \/ SaveCommit(p)
       \/ TeamCollect(p)
       \/ TeamRate(p)
       \/ TeamSaveSelect(p)
       \/ TeamSaveCommit(p)

(* One request at a time never leaves two rows under one key, so the      *)
(* order in which the database scans rows cannot show; one order is kept. *)
InitTeam == Init /\ scanOrder = "asc"

SpecTeam == InitTeam /\ [][NextTeam]_vars

(* generate_employee_recommendations on every answer the model can give:  *)
(* up to MaxModelRecs recommendations out of three different ones.        *)
RecPool == {Rec(1), Rec(2), Rec(3)}

InitRec ==
    /\ reports = {}
    /\ teamReports = {}
    /\ nextId = 1
    /\ utr = TeamOfTwo
    /\ scanOrder = "asc"
    /\ proc = [p \in Procs |-> IdleProc]
    /\ started = 0
    /\ storeVer = 0
    /\ lastDone = [k \in Users \X SprintIds |-> None]
    /\ recIn \in UNION {[1..n -> RecPool] : n \in 0..MaxModelRecs}
    /\ recOut = None
    /\ argIn = None
    /\ argOut = None
    /\ setCur = NoSetCalls
    /\ trackers = TwoTrackers
    /\ apiLog = NoApi

Recommend ==
    /\ recOut = None
    /\ recOut' = <<generate_employee_recommendations(recIn)>>
    /\ UNCHANGED <<reports, teamReports, nextId, utr, scanOrder, proc, started,
                   storeVer, lastDone, recIn, argIn, argOut, setCur,
                   trackers, apiLog>>

SpecRec == InitRec /\ [][Recommend]_vars

(* The quiet part of every state of the pure-function specifications *)
NoRequests ==
    /\ reports = {}
    /\ teamReports = {}
    /\ nextId = 1
    /\ utr = TeamOfTwo
    /\ scanOrder = "asc"
    /\ proc = [p \in Procs |-> IdleProc]
    /\ started = 0
    /\ storeVer = 0
    /\ lastDone = [k \in Users \X SprintIds |-> None]
    /\ recIn = <<>>
    /\ recOut = None
    /\ setCur = NoSetCalls
    /\ trackers = TwoTrackers
    /\ apiLog = NoApi

(* _create_metric_comparison on its own.  The metrics are counts, story   *)
(* point sums and hours: floats n/d that are not negative.                 *)
MaxMetric == 4

MetricValues == {Frac(n, d) : n \in 0..MaxMetric, d \in {1, 2}}

InitCmp ==
    /\ NoRequests
    /\ argIn \in [current : MetricValues, previous : MetricValues \cup {None}]
    /\ argOut = None

Compare ==
    /\ argOut = None
    /\ argOut' = <<_create_metric_comparison(argIn.current, argIn.previous)>>
    /\ UNCHANGED <<reports, teamReports, nextId, utr, scanOrder, proc, started,
                   storeVer, lastDone, recIn, recOut, argIn, setCur,
                   trackers, apiLog>>

SpecCmp == InitCmp /\ [][Compare]_vars

(* _process_tasks on its own: every list of up to MaxTasks tasks *)
MaxTasks == 2

TaskOpenFuture == [id |-> "E", story_points |-> <<1>>, deadline |-> <<18>>,
                   resolved_at |-> None, status_key |-> "open"]
TaskDoneOnDeadline == [id |-> "F", story_points |-> <<0>>, deadline |-> <<18>>,
                       resolved_at |-> <<18, 0>>, status_key |-> "done"]

(* status done, a deadline, and no resolvedAt in the tracker's answer *)
TaskDoneUnresolved == [id |-> "G", story_points |-> <<1>>, deadline |-> <<18>>,
                       resolved_at |-> None, status_key |-> "done"]

TaskPool == {TaskDone, TaskOpenLate, TaskOpenPlain, TaskDoneDeadline,
             TaskOpenFuture, TaskDoneOnDeadline, TaskDoneUnresolved}

InitTasks ==
    /\ NoRequests
    /\ argIn \in [tasks : UNION {[1..n -> TaskPool] : n \in 0..MaxTasks},
                  logged : LoggedAnswers, today : Todays]
    /\ argOut = None

ProcessTasks ==
    /\ argOut = None
    /\ argOut' = <<_process_tasks(argIn.tasks, argIn.logged, argIn.today)>>
    /\ UNCHANGED <<reports, teamReports, nextId, utr, scanOrder, proc, started,
                   storeVer, lastDone, recIn, recOut, argIn, setCur,
                   trackers, apiLog>>

SpecTasks == InitTasks /\ [][ProcessTasks]_vars

(* The except clauses of the two report endpoints.  ValueErrors are the   *)
(* exception types that derive from ValueError; fastapi's HTTPException    *)
(* derives from Exception only.                                            *)
ValueErrors == {"ValueError", "ValidationError"}

IndividualStatus(exc) ==
    IF exc.type \in ValueErrors THEN 404
    ELSE IF exc.type = "ConnectionError" THEN 503
    ELSE 500

TeamStatus(exc) ==
    IF exc.type \in ValueErrors THEN 403
    ELSE IF exc.type = "ConnectionError" THEN 503
    ELSE 500

(* What configured_model.run can do: raise, or return something that is   *)
(* or is not a GPTModelResult, with or without a first alternative, whose  *)
(* text is empty, not JSON, JSON of another shape, or JSON of the model.   *)
AlternativeTexts == {"", "not json", "{}", "fits"}

SdkAnswers ==
    [raises : {"", "network", "unprocessable entity"},
     is_result : BOOLEAN,
     alternatives : {0, 1},
     is_alternative : BOOLEAN,
     text : AlternativeTexts]

(* response_model.parse_raw(json_string): the parsed object, or the       *)
(* exception pydantic raises                                               *)
parse_raw(json_string) ==
    IF json_string = "fits" THEN [raised |-> "", value |-> <<"parsed">>]
    ELSE [raised |-> "ValidationError", value |-> None]

(* The try body of _call_llm_structured, lines 90-116 *)
LlmTry(a) ==
    IF a.raises # "" THEN [raised |-> "Exception", value |-> None]
    ELSE IF ~a.is_result THEN [raised |-> "ConnectionError", value |-> None]
    ELSE IF a.alternatives = 0 THEN [raised |-> "ConnectionError", value |-> None]
    ELSE IF ~a.is_alternative \/ a.text = ""
    THEN [raised |-> "ConnectionError", value |-> None]
    ELSE parse_raw(a.text)

_call_llm_structured_defaulting(a) ==
    LET r == LlmTry(a) IN
    IF r.raised = "" THEN r
    ELSE IF r.raised = "ValidationError" THEN [raised |-> "", value |-> <<"default">>]
    ELSE [raised |-> "ConnectionError", value |-> None]

(* _call_llm_structured with its except clauses, lines 118-140: each of   *)
(* them raises ConnectionError.                                            *)
_call_llm_structured(a) ==
    LET r == LlmTry(a) IN
    IF r.raised = "" THEN r
    ELSE IF r.raised = "JSONDecodeError" THEN [raised |-> "ConnectionError", value |-> None]
    ELSE IF r.raised = "ValidationError" THEN [raised |-> "ConnectionError", value |-> None]
    ELSE IF r.raised = "ConnectionError" THEN [raised |-> "ConnectionError", value |-> None]
    ELSE [raised |-> "ConnectionError", value |-> None]

InitLlm ==
    /\ NoRequests
    /\ argIn \in SdkAnswers
    /\ argOut = None

(* One structured call made for an individual report request *)
CallLlm ==
    /\ argOut = None
    /\ LET r == _call_llm_structured(argIn)
       IN  argOut' = <<[raised |-> r.raised, value |-> r.value,
                        status |-> IF r.raised = "" THEN 200
                                   ELSE IndividualStatus([type |-> r.raised])]>>
    /\ UNCHANGED <<reports, teamReports, nextId, utr, scanOrder, proc, started,
                   storeVer, lastDone, recIn, recOut, argIn, setCur,
                   trackers, apiLog>>

SpecLlm == InitLlm /\ [][CallLlm]_vars

(* user_tracker_roles where user 2, an employee of tracker 1, has no       *)
(* current tracker                                                         *)
TeamMemberNoCurrent ==
    {[user_id |-> 1, tracker_id |-> 1, role |-> "manager", is_current |-> TRUE],
     [user_id |-> 2, tracker_id |-> 1, role |-> "employee", is_current |-> FALSE]}

(* user_tracker_roles where user 2, an employee of tracker 1, currently    *)
(* works in tracker 2                                                      *)
TeamMemberElsewhere ==
    {[user_id |-> 1, tracker_id |-> 1, role |-> "manager", is_current |-> TRUE],
     [user_id |-> 2, tracker_id |-> 1, role |-> "employee", is_current |-> FALSE],
     [user_id |-> 2, tracker_id |-> 2, role |-> "employee", is_current |-> TRUE]}

(* Team requests, one at a time, over the three memberships *)
InitRoles ==
    /\ reports = {}
    /\ teamReports = {}
    /\ nextId = 1
    /\ utr \in {TeamOfTwo, TeamMemberNoCurrent, TeamMemberElsewhere}
    /\ scanOrder = "asc"
    /\ proc = [p \in Procs |-> IdleProc]
    /\ started = 0
    /\ storeVer = 0
    /\ lastDone = [k \in Users \X SprintIds |-> None]
    /\ recIn = <<>>
    /\ recOut = None
    /\ argIn = None
    /\ argOut = None
    /\ setCur = NoSetCalls
    /\ trackers = TwoTrackers
    /\ apiLog = NoApi

SpecRoles == InitRoles /\ [][NextTeam]_vars

----------------------------------------------------------------------------
(* UserRepository.set_current_tracker. Every call runs in a session and    *)
(* transaction of its own (get_db) on PostgreSQL at its default isolation, *)
(* READ COMMITTED: a statement sees the rows committed before it began and *)
(* the transaction's own changes; an UPDATE locks the rows it changes      *)
(* until the commit and waits for rows another transaction has locked; the *)
(* session flushes the association (autoflush off) inside commit().        *)
MaxSetCalls == 3

RoleNames == {"manager", "employee"}

RowKey(a) == <<a.user_id, a.tracker_id>>

(* the rows that calls in flight other than p have locked *)
LockedByOthers(p) ==
    UNION {IF setCur.call[o].pc \in {"cleared", "selected"}
           THEN setCur.call[o].locked ELSE {} : o \in Procs \ {p}}

SetCall(p, c) == setCur' = [setCur EXCEPT !.call[p] = c]

(* the call is entered: trackers.py:95, users.py:80 and 91 *)
BeginSet(p) ==
    /\ setCur.begun < MaxSetCalls
    /\ setCur.call[p].pc \in {"idle", "done", "failed"}
    /\ \E u \in Users, t \in Trackers, r \in RoleNames :
          setCur' = [begun |-> setCur.begun + 1,
                     call |-> [setCur.call EXCEPT ![p] =
                                  [IdleCall EXCEPT !.pc = "begun", !.user_id = u,
                                                   !.tracker_id = t, !.role = r]]]
    /\ UNCHANGED <<reports, teamReports, nextId, utr, scanOrder, proc, started,
                   storeVer, lastDone, recIn, recOut, argIn, argOut,
                       trackers, apiLog>>

(* step 1: UPDATE ... SET is_current = false WHERE user_id = :user_id. The *)
(* statement sees the user's committed rows; it changes and locks them at  *)
(* once, or waits when another transaction holds one of them.              *)
ClearFlags(p) ==
    LET c == setCur.call[p]
        seen == {RowKey(a) : a \in {b \in utr : b.user_id = c.user_id}}
    IN  /\ c.pc = "begun"
        /\ IF seen \cap LockedByOthers(p) = {}
           THEN SetCall(p, [c EXCEPT !.pc = "cleared", !.snapshot = seen,
                                     !.locked = seen])
           ELSE SetCall(p, [c EXCEPT !.pc = "waiting", !.snapshot = seen])
        /\ UNCHANGED <<reports, teamReports, nextId, utr, scanOrder, proc,
                       started, storeVer, lastDone, recIn, recOut, argIn, argOut,
                       trackers, apiLog>>

(* the waiting UPDATE goes on once the locks are released: it changes the  *)
(* rows of its snapshot, not the rows committed since the statement began  *)
ResumeClear(p) ==
    LET c == setCur.call[p]
    IN  /\ c.pc = "waiting"
        /\ c.snapshot \cap LockedByOthers(p) = {}
        /\ SetCall(p, [c EXCEPT !.pc = "cleared", !.locked = c.snapshot])
        /\ UNCHANGED <<reports, teamReports, nextId, utr, scanOrder, proc,
                       started, storeVer, lastDone, recIn, recOut, argIn, argOut,
                       trackers, apiLog>>

(* step 2: SELECT the association of (user_id, tracker_id); the row is     *)
(* loaded as this transaction sees it, its own UPDATE applied              *)
SelectAssoc(p) ==
    LET c == setCur.call[p]
        found == {a \in utr : RowKey(a) = <<c.user_id, c.tracker_id>>}
        row == CHOOSE a \in found : TRUE
        loaded == IF RowKey(row) \in c.locked
                  THEN [row EXCEPT !.is_current = FALSE] ELSE row
    IN  /\ c.pc = "cleared"
        /\ SetCall(p, [c EXCEPT !.pc = "selected",
                                !.assoc = IF found = {} THEN None ELSE <<loaded>>])
        /\ UNCHANGED <<reports, teamReports, nextId, utr, scanOrder, proc,
                       started, storeVer, lastDone, recIn, recOut, argIn, argOut,
                       trackers, apiLog>>

(* the user_tracker_roles table after the call's transaction commits: the  *)
(* locked rows cleared, then the association's changed attributes written  *)
(* (the unit of work updates only attributes whose value differs from the  *)
(* loaded one) or the new association inserted                             *)
CommittedRows(c) ==
    LET key == <<c.user_id, c.tracker_id>>
        cleared == {IF RowKey(a) \in c.locked
                    THEN [a EXCEPT !.is_current = FALSE] ELSE a : a \in utr}
    IN  IF c.assoc = None
        THEN cleared \cup {[user_id |-> c.user_id, tracker_id |-> c.tracker_id,
                            role |-> c.role, is_current |-> TRUE]}
        ELSE {IF RowKey(a) = key
              THEN [a EXCEPT !.role = IF c.role # c.assoc[1].role
                                      THEN c.role ELSE @,
                             !.is_current = IF ~c.assoc[1].is_current
                                            THEN TRUE ELSE @]
              ELSE a : a \in cleared}

(* assoc.role / assoc.is_current or session.add, then commit(), refresh()  *)
(* and get_by_id_with_all_trackers: lines 160-178. An INSERT of a key that *)
(* was committed meanwhile violates the primary key; the flush's UPDATE of *)
(* a row another transaction has locked waits for it.                      *)
CommitSet(p) ==
    LET c == setCur.call[p]
        key == <<c.user_id, c.tracker_id>>
        dirty == c.assoc # None
                 /\ (c.role # c.assoc[1].role \/ ~c.assoc[1].is_current)
    IN  /\ c.pc = "selected"
        /\ (dirty /\ key \notin c.locked) => key \notin LockedByOthers(p)
        /\ IF c.assoc = None /\ \E a \in utr : RowKey(a) = key
           THEN /\ SetCall(p, [c EXCEPT !.pc = "failed", !.locked = {},
                                        !.err = <<"IntegrityError">>])
                /\ UNCHANGED utr
           ELSE /\ utr' = CommittedRows(c)
                /\ SetCall(p, [c EXCEPT !.pc = "done", !.locked = {},
                                        !.current =
                                           {a.tracker_id : a \in
                                              {b \in CommittedRows(c) :
                                                 b.user_id = c.user_id
                                                 /\ b.is_current}}])
        /\ UNCHANGED <<reports, teamReports, nextId, scanOrder, proc, started,
                       storeVer, lastDone, recIn, recOut, argIn, argOut,
                       trackers, apiLog>>

(* The table is empty or holds the team of two; no report request runs *)
InitSet ==
    /\ reports = {}
    /\ teamReports = {}
    /\ nextId = 1
    /\ utr \in {{}, TeamOfTwo}
    /\ scanOrder = "asc"
    /\ proc = [p \in Procs |-> IdleProc]
    /\ started = 0
    /\ storeVer = 0
    /\ lastDone = [k \in Users \X SprintIds |-> None]
    /\ recIn = <<>>
    /\ recOut = None
    /\ argIn = None
    /\ argOut = None
    /\ setCur = NoSetCalls
    /\ trackers = TwoTrackers
    /\ apiLog = NoApi

NextSet ==
    \E p \in Procs :
       \/ BeginSet(p)
       \/ ClearFlags(p)
       \/ ResumeClear(p)
       \/ SelectAssoc(p)
       \/ CommitSet(p)

SpecSet == InitSet /\ [][NextSet]_vars

----------------------------------------------------------------------------
(* The API operations that write trackers and user_tracker_roles, one at a *)
(* time: POST /trackers, PUT /trackers/current/{id}, GET /users and        *)
(* POST /users/{id}/role.                                                  *)
MaxApiCalls == 4
MaxTrackers == 2

CloudIds == {"c1", "c2"}
OrgIds == {"o1"}
RequestedRoles == {"manager", "employee", "owner"}

(* get_user_role_for_tracker: <<role>> of the association, or None *)
get_user_role_for_tracker(rows, user_id, tracker_id) ==
    LET found == {a \in rows : RowKey(a) = <<user_id, tracker_id>>}
    IN  IF found = {} THEN None ELSE <<(CHOOSE a \in found : TRUE).role>>

(* set_current_tracker run with no other transaction in flight: the rows   *)
(* after ClearFlags, SelectAssoc and CommitSet in a row                    *)
SetCurrentRows(rows, user_id, tracker_id, role) ==
    LET key == <<user_id, tracker_id>>
        cleared == {IF a.user_id = user_id
                    THEN [a EXCEPT !.is_current = FALSE] ELSE a : a \in rows}
    IN  IF \E a \in cleared : RowKey(a) = key
        THEN {IF RowKey(a) = key
              THEN [a EXCEPT !.role = role, !.is_current = TRUE]
              ELSE a : a \in cleared}
        ELSE cleared \cup {[user_id |-> user_id, tracker_id |-> tracker_id,
                            role |-> role, is_current |-> TRUE]}

Logged(op, user, tracker, target, status) ==
    apiLog' = [n |-> apiLog.n + 1,
               last |-> [op |-> op, user |-> user, tracker |-> tracker,
                         target |-> target, status |-> status]]

(* the trackers create_or_update_yandex_tracker looks up: by cloud_id when *)
(* one is given, else by org_id                                            *)
TrackersFound(cloud_id, org_id) ==
    IF cloud_id # None
    THEN {t \in trackers : t.yandex_cloud_id = cloud_id}
    ELSE {t \in trackers : t.yandex_org_id = org_id}

NextTrackerId == IF trackers = {} THEN 1
                 ELSE (CHOOSE i \in {t.id : t \in trackers} :
                          \A t \in trackers : t.id <= i) + 1

(* POST /trackers: create or update the tracker, then make the caller its  *)
(* manager and make it the caller's current tracker                        *)
CreateTracker(u) ==
    \E cloud_id \in {None} \cup {<<c>> : c \in CloudIds},
       org_id \in {None} \cup {<<o>> : o \in OrgIds} :
       LET found == TrackersFound(cloud_id, org_id)
           old == CHOOSE t \in found : TRUE
           updated == [old EXCEPT
                         !.yandex_cloud_id = IF cloud_id # None THEN cloud_id ELSE @,
                         !.yandex_org_id = IF org_id # None THEN org_id ELSE @]
           new == [id |-> NextTrackerId, yandex_cloud_id |-> cloud_id,
                   yandex_org_id |-> org_id]
       IN  /\ apiLog.n < MaxApiCalls
           /\ (cloud_id # None \/ org_id # None) /\ found = {}
                 => Cardinality(trackers) < MaxTrackers
           /\ IF cloud_id = None /\ org_id = None
              THEN /\ Logged("create_tracker", u, 0, 0, 400)
                   /\ UNCHANGED <<trackers, utr>>
              ELSE IF Cardinality(found) > 1
              THEN /\ Logged("create_tracker", u, 0, 0, 500)
                   /\ UNCHANGED <<trackers, utr>>
              ELSE IF found = {}
              THEN /\ trackers' = trackers \cup {new}
                   /\ utr' = SetCurrentRows(utr, u, new.id, "manager")
                   /\ Logged("create_tracker", u, new.id, 0, 200)
              ELSE /\ trackers' = (trackers \ {old}) \cup {updated}
                   /\ utr' = SetCurrentRows(utr, u, old.id, "manager")
                   /\ Logged("create_tracker", u, old.id, 0, 200)
           /\ UNCHANGED <<reports, teamReports, nextId, scanOrder, proc, started,
                          storeVer, lastDone, recIn, recOut, argIn, argOut, setCur>>

(* PUT /trackers/current/{tracker_id}: set_current_tracker with its        *)
(* default role                                                            *)
PutCurrentTracker(u) ==
    \E tracker_id \in 1..(MaxTrackers + 1) :
       /\ apiLog.n < MaxApiCalls
       /\ IF ~\E t \in trackers : t.id = tracker_id
          THEN /\ Logged("put_current", u, tracker_id, 0, 404)
               /\ UNCHANGED utr
          ELSE /\ utr' = SetCurrentRows(utr, u, tracker_id, "employee")
               /\ Logged("put_current", u, tracker_id, 0, 200)
       /\ UNCHANGED <<reports, teamReports, nextId, scanOrder, proc, started,
                      storeVer, lastDone, recIn, recOut, argIn, argOut, setCur,
                      trackers>>

(* the loop of GET /users over the listed users that have a record: a user *)
(* without a role on the tracker gets set_current_tracker(.., "employee")  *)
RECURSIVE AssignListed(_, _, _)
AssignListed(rows, listed, tracker_id) ==
    IF listed = {} THEN rows
    ELSE LET x == CHOOSE y \in listed : \A z \in listed : y <= z
             next == IF get_user_role_for_tracker(rows, x, tracker_id) = None
                     THEN SetCurrentRows(rows, x, tracker_id, "employee")
                     ELSE rows
         IN  AssignListed(next, listed \ {x}, tracker_id)

(* GET /users: the tracker lists users; a manager's call binds them *)
GetUsers(u) ==
    \E listed \in SUBSET Users, tracker_ok \in BOOLEAN :
       LET cur == get_user_current_tracker(u)
       IN  /\ apiLog.n < MaxApiCalls
           /\ IF ~tracker_ok
              THEN /\ Logged("get_users", u, 0, 0, 503)
                   /\ UNCHANGED utr
              ELSE IF cur = None
              THEN /\ Logged("get_users", u, 0, 0, 500)
                   /\ UNCHANGED utr
              ELSE IF cur[2] # "manager"
              THEN /\ Logged("get_users", u, cur[1], 0, 403)
                   /\ UNCHANGED utr
              ELSE /\ utr' = AssignListed(utr, listed, cur[1])
                   /\ Logged("get_users", u, cur[1], 0, 200)
           /\ UNCHANGED <<reports, teamReports, nextId, scanOrder, proc, started,
                          storeVer, lastDone, recIn, recOut, argIn, argOut, setCur,
                          trackers>>

(* change_user_role: the association's role, when there is one *)
change_user_role(rows, user_id, tracker_id, new_role) ==
    {IF RowKey(a) = <<user_id, tracker_id>>
     THEN [a EXCEPT !.role = new_role] ELSE a : a \in rows}

(* POST /users/{user_id}/role *)
UpdateRole(u) ==
    \E user_id \in TokenSubjects, role \in RequestedRoles :
       LET cur == get_user_current_tracker(u)
       IN  /\ apiLog.n < MaxApiCalls
           /\ IF get_by_id(user_id) = None
              THEN /\ Logged("update_role", u, 0, user_id, 404)
                   /\ UNCHANGED utr
              ELSE IF cur = None
              THEN /\ Logged("update_role", u, 0, user_id, 500)
                   /\ UNCHANGED utr
              ELSE IF cur[2] # "manager" \/ user_id = u
              THEN /\ Logged("update_role", u, cur[1], user_id, 403)
                   /\ UNCHANGED utr
              ELSE IF role \notin RoleNames
              THEN /\ Logged("update_role", u, cur[1], user_id, 400)
                   /\ UNCHANGED utr
              ELSE /\ utr' = change_user_role(utr, user_id, cur[1], role)
                   /\ Logged("update_role", u, cur[1], user_id, 200)
           /\ UNCHANGED <<reports, teamReports, nextId, scanOrder, proc, started,
                          storeVer, lastDone, recIn, recOut, argIn, argOut, setCur,
                          trackers>>

(* An empty database, or the team of two on the two trackers *)
InitApi ==
    /\ reports = {}
    /\ teamReports = {}
    /\ nextId = 1
    /\ \/ utr = {} /\ trackers = {}
       \/ utr = TeamOfTwo /\ trackers = TwoTrackers
    /\ scanOrder = "asc"
    /\ proc = [p \in Procs |-> IdleProc]
    /\ started = 0
    /\ storeVer = 0
    /\ lastDone = [k \in Users \X SprintIds |-> None]
    /\ recIn = <<>>
    /\ recOut = None
    /\ argIn = None
    /\ argOut = None
    /\ setCur = NoSetCalls
    /\ apiLog = NoApi

NextApi ==
    \E u \in Users :
       \/ CreateTracker(u)
       \/ PutCurrentTracker(u)
       \/ GetUsers(u)
       \/ UpdateRole(u)

SpecApi == InitApi /\ [][NextApi]_vars

----------------------------------------------------------------------------
(* The previous sprint of a team report on its own (lines 225-277): every  *)
(* list of up to MaxSprints distinct sprints, in any order, over stores    *)
(* that hold some of the team's earlier individual reports.                *)
MaxSprints == 3

SprintPool ==
    {TrackerSprints[1], TrackerSprints[2],
     [id |-> 3, name |-> "Sprint 3", start_date |-> 20, end_date |-> 29],
     [id |-> 4, name |-> "Sprint 0", start_date |-> 5, end_date |-> 9]}

SprintLists ==
    {l \in UNION {[1..n -> SprintPool] : n \in 0..MaxSprints} :
        \A i, j \in 1..Len(l) : i # j => l[i] # l[j]}

(* a row of sprint_reports as save_or_update_sprint_report stores it *)
StoredRow(id, user_id, tracker_id, sprint) ==
    [id |-> id, user_id |-> user_id, tracker_id |-> tracker_id,
     sprint_id |-> sprint.id, sprint_name |-> sprint.name,
     sprint_start_date |-> sprint.start_date,
     sprint_end_date |-> sprint.end_date,
     story_points_closed |-> Frac(id, 1),
     tasks_completed |-> Frac(1, 1),
     deadlines_missed |-> Frac(0, 1),
     average_task_completion_time |-> Frac(1, 2),
     activity_analysis |-> "analysis a",
     recommendations |-> <<>>]

EarlierReports ==
    {StoredRow(1, 1, 1, TrackerSprints[1]), StoredRow(2, 2, 1, TrackerSprints[1])}

(* lines 256-268 for every user: the entries of prev_employee_stats *)
RECURSIVE PrevEmployeeStats(_, _, _)
PrevEmployeeStats(users, tracker_id, prev_sprint) ==
    IF users = <<>> THEN <<>>
    ELSE LET user == users[Len(users)]
             prev_stats_report ==
                 IF prev_sprint # None
                 THEN get_sprint_report_by_id(user, tracker_id, prev_sprint[1].id)
                 ELSE None
             pr == prev_stats_report[1]
             rest == PrevEmployeeStats(SubSeq(users, 1, Len(users) - 1),
                                       tracker_id, prev_sprint)
         IN  IF prev_stats_report = None THEN rest
             ELSE Append(rest,
                    [employee_id |-> str(user), employee_name |-> DisplayName(user),
                     story_points_closed |-> [current |-> pr.story_points_closed],
                     tasks_completed |-> [current |-> pr.tasks_completed],
                     deadlines_missed |-> [current |-> pr.deadlines_missed],
                     average_task_completion_time |->
                         [current |-> pr.average_task_completion_time]])

(* line 276: prev_employee_stats if prev_employee_stats else None *)
RatingPreviousArgument(prev_employee_stats) ==
    IF prev_employee_stats = <<>> THEN None ELSE <<prev_employee_stats>>

InitPrev ==
    /\ reports \in SUBSET EarlierReports
    /\ teamReports = {}
    /\ nextId = 3
    /\ utr = TeamOfTwo
    /\ scanOrder = "asc"
    /\ proc = [p \in Procs |-> IdleProc]
    /\ started = 0
    /\ storeVer = 0
    /\ lastDone = [k \in Users \X SprintIds |-> None]
    /\ recIn = <<>>
    /\ recOut = None
    /\ argIn \in [sprint_id : SprintIds, all_sprints : SprintLists]
    /\ argOut = None
    /\ setCur = NoSetCalls
    /\ trackers = TwoTrackers
    /\ apiLog = NoApi

PreviousSprint ==
    /\ argOut = None
    /\ LET prev_sprint == PrevSprint(argIn.sprint_id, argIn.all_sprints)
       IN  argOut' = <<[prev_sprint |-> prev_sprint,
                        prev_employee_stats |->
                           RatingPreviousArgument(
                              PrevEmployeeStats(get_users_for_tracker(1), 1,
                                                prev_sprint))]>>
    /\ UNCHANGED <<reports, teamReports, nextId, utr, scanOrder, proc, started,
                   storeVer, lastDone, recIn, recOut, argIn, setCur,
                   trackers, apiLog>>

SpecPrev == InitPrev /\ [][PreviousSprint]_vars

----------------------------------------------------------------------------
(* ReportRepository.get_previous_sprint_report on its own: every store of  *)
(* up to MaxStoredReports rows of two users, two trackers and four sprints *)
MaxStoredReports == 3

SprintOfPool(id) == CHOOSE s \in SprintPool : s.id = id

StoredPool ==
    {StoredRow(1, 1, 1, SprintOfPool(4)), StoredRow(2, 1, 1, SprintOfPool(1)),
     StoredRow(3, 1, 1, SprintOfPool(2)), StoredRow(4, 1, 1, SprintOfPool(3)),
     StoredRow(5, 2, 1, SprintOfPool(1)), StoredRow(6, 1, 2, SprintOfPool(2))}

Stores == {S \in SUBSET StoredPool : Cardinality(S) <= MaxStoredReports}

StartDates == {s.start_date : s \in SprintPool} \cup {30}

InitQuery ==
    /\ reports \in Stores
    /\ teamReports = {}
    /\ nextId = 7
    /\ utr = TeamOfTwo
    /\ scanOrder \in {"asc", "desc"}
    /\ proc = [p \in Procs |-> IdleProc]
    /\ started = 0
    /\ storeVer = 0
    /\ lastDone = [k \in Users \X SprintIds |-> None]
    /\ recIn = <<>>
    /\ recOut = None
    /\ argIn \in [user_id : Users, tracker_id : Trackers,
                  sprint_start_date : StartDates]
    /\ argOut = None
    /\ setCur = NoSetCalls
    /\ trackers = TwoTrackers
    /\ apiLog = NoApi

QueryPrevious ==
    /\ argOut = None
    /\ argOut' = <<get_previous_sprint_report(argIn.user_id, argIn.tracker_id,
                                              argIn.sprint_start_date)>>
    /\ UNCHANGED <<reports, teamReports, nextId, utr, scanOrder, proc, started,
                   storeVer, lastDone, recIn, recOut, argIn, setCur,
                   trackers, apiLog>>

SpecQuery == InitQuery /\ [][QueryPrevious]_vars

----------------------------------------------------------------------------
(* ReportRepository.save_or_update_sprint_report followed by               *)
(* get_sprint_report_by_id, on their own: every store of SpecQuery, with   *)
(* and without a row of the key, and fields that do or do not repeat the   *)
(* stored sprint name and dates.                                           *)
SuppliedSprints ==
    {SprintOfPool(2),
     [id |-> 2, name |-> "Sprint 2 moved", start_date |-> 21, end_date |-> 30]}

SuppliedFields ==
    [user_id : Users, tracker_id : {1}, sprint : SuppliedSprints,
     story_points_closed : {Frac(3, 1), Frac(7, 2)},
     recommendations : {<<>>, <<Rec(1), Rec(2)>>}]

(* the keyword arguments as the locals SaveSelect and SaveCommit read *)
UpsertCall(a, saveRow) ==
    [user |-> a.user_id, tracker_id |-> a.tracker_id, sprint_id |-> a.sprint.id,
     sprint |-> <<a.sprint>>,
     metrics |-> <<CompareAll(a.story_points_closed, Frac(2, 1), Frac(1, 1),
                              Frac(3, 2), None)>>,
     activity |-> "analysis b", recs |-> a.recommendations, saveRow |-> saveRow]

InitUpsert ==
    /\ reports \in Stores
    /\ teamReports = {}
    /\ nextId = 7
    /\ utr = TeamOfTwo
    /\ scanOrder = "asc"
    /\ proc = [p \in Procs |-> IdleProc]
    /\ started = 0
    /\ storeVer = 0
    /\ lastDone = [k \in Users \X SprintIds |-> None]
    /\ recIn = <<>>
    /\ recOut = None
    /\ \E a \in SuppliedFields :
          argIn = [fields |-> a, before |-> reports]
    /\ argOut = None
    /\ setCur = NoSetCalls
    /\ trackers = TwoTrackers
    /\ apiLog = NoApi

(* save_or_update_sprint_report, lines 10-44: select, insert or update,    *)
(* commit, refresh                                                         *)
Upsert ==
    LET a == argIn.fields
        q == UpsertCall(a, get_sprint_report_by_id(a.user_id, a.tracker_id,
                                                   a.sprint.id))
    IN  /\ argOut = None
        /\ reports' = save_or_update_sprint_report(q)
        /\ nextId' = IF q.saveRow = None THEN nextId + 1 ELSE nextId
        /\ argOut' = <<[saved |-> TRUE, read |-> None]>>
        /\ UNCHANGED <<teamReports, utr, scanOrder, proc, started, storeVer,
                       lastDone, recIn, recOut, argIn, setCur, trackers, apiLog>>

(* get_sprint_report_by_id of the same key, lines 56-63 *)
ReadBack ==
    LET a == argIn.fields IN
    /\ argOut # None
    /\ argOut[1].read = None
    /\ argOut' = <<[saved |-> TRUE,
                    read |-> <<get_sprint_report_by_id(a.user_id, a.tracker_id,
                                                       a.sprint.id)>>]>>
    /\ UNCHANGED <<reports, teamReports, nextId, utr, scanOrder, proc, started,
                   storeVer, lastDone, recIn, recOut, argIn, setCur,
                   trackers, apiLog>>

SpecUpsert == InitUpsert /\ [][Upsert \/ ReadBack]_vars

----------------------------------------------------------------------------
(* Properties *)

SameKey(a, b) ==
    /\ a.user = b.user /\ a.tracker_id = b.tracker_id /\ a.sprint_id = b.sprint_id

(* C1: an invocation that returns the stored report of its key has made no *)
(* get_sprint_tasks call, no get_issue_logged_time call and no LLM call.   *)
C1_StoredReportWithoutCalls ==
    \A p \in Procs :
       proc[p].inv.hit =>
          /\ proc[p].inv.taskFetch = 0
          /\ proc[p].inv.logged = 0
          /\ proc[p].inv.llm = 0

C3_AllOrNothing ==
    \A p \in Procs :
       LET q == proc[p]
           missed == \/ q.pc \in {"i_miss", "i_llm", "i_save", "i_commit"}
                     \/ /\ q.pc = "failed"
                        /\ q.err[1].why \in {"activity", "recommendations"}
       IN  q.kind = "ind" =>
             /\ q.pc # "done" => q.inv.writes = 0
             /\ missed =>
                  get_sprint_report_by_id(q.user, q.tracker_id, q.sprint_id) = None
             /\ q.inv.writes <= 1
             /\ q.inv.writes = 1 => q.inv.llm = 2

C3_Witness ==
    \E p \in Procs :
       LET q == proc[p] IN
       /\ q.kind = "ind" /\ q.pc = "failed"
       /\ q.err[1].why = "recommendations"
       /\ q.inv.llm = 2 /\ q.inv.writes = 0
       /\ reports # {}
       /\ get_sprint_report_by_id(q.user, q.tracker_id, q.sprint_id) = None

(* role of the requester on their current tracker *)
CurrentRole(user_id) ==
    LET tracker_info == get_user_current_tracker(user_id)
    IN  IF tracker_info = None THEN "none" ELSE tracker_info[2]

(* C4: a team request of a requester whose current role is not manager     *)
(* gets no further than the role check: it fails there with the           *)
(* permission error, having made no tracker call, no LLM call, no read or  *)
(* write of team_sprint_reports, and it returns no team report.            *)
C4_NonManagerStopsAtRole ==
    \A p \in Procs :
       LET q == proc[p] IN
       (q.kind = "team" /\ CurrentRole(q.requester) \notin {"manager", "none"})
       => /\ q.pc \in {"t_role", "failed"}
          /\ q.pc = "failed" => q.err = Exc("ValueError", 0, "role")
          /\ q.tot = NoTotals
          /\ q.t_ret = None

C4_Witness ==
    \E p \in Procs :
       LET q == proc[p] IN
       /\ q.kind = "team" /\ CurrentRole(q.requester) = "employee"
       /\ q.pc = "failed" /\ q.err[1].why = "role"
       /\ get_team_sprint_report_by_id(
             get_user_current_tracker(q.requester)[1], q.sprint_id) # None

(* C5: of two invocations for the same user, tracker and sprint at most    *)
(* one performs the LLM analysis and the upsert.                           *)
C5_OneGenerationPerKey ==
    \A p, r \in Procs :
       (/\ p # r /\ proc[p].kind = "ind" /\ proc[r].kind = "ind"
        /\ SameKey(proc[p], proc[r]))
       => ~(/\ proc[p].inv.llm > 0 /\ proc[p].inv.writes > 0
            /\ proc[r].inv.llm > 0 /\ proc[r].inv.writes > 0)

(* C6: sprint_reports holds at most one row per (user_id, tracker_id,      *)
(* sprint_id).                                                             *)
C6_OneRowPerKey ==
    \A a, b \in reports :
       (a.user_id = b.user_id /\ a.tracker_id = b.tracker_id
        /\ a.sprint_id = b.sprint_id) => a = b

(* C7: a row of sprint_reports never changes once it is there. *)
C7_RowsNeverChange == [][\A r \in reports : r \in reports']_vars

(* C8: in a generated team report every employee the rating answer has no  *)
(* item for carries rating 3 and the fallback explanation, every other     *)
(* employee carries a rating and explanation the answer gave for their id, *)
(* and the report is stored and returned.                                  *)
RatedAs(llm_result, f) ==
    LET items == {i \in 1..Len(llm_result) :
                     llm_result[i].employee_id = f.employee_id}
    IN  IF items = {}
        THEN f.rating = 3 /\ f.rating_explanation = FallbackExplanation
        ELSE \E i \in items :
                /\ f.rating = llm_result[i].rating
                /\ f.rating_explanation = llm_result[i].rating_explanation

C8_RatingDefaulting ==
    \A p \in Procs :
       LET q == proc[p]
           stored == get_team_sprint_report_by_id(q.t_tracker, q.sprint_id)
       IN
       /\ (q.kind = "team" /\ q.pc \in {"t_save", "t_commit"}) =>
             /\ Len(q.final) = Len(q.emp)
             /\ \A i \in 1..Len(q.emp) :
                   /\ q.final[i].employee_id = q.emp[i].employee_id
                   /\ RatedAs(q.rated, q.final[i])
       /\ (q.kind = "team" /\ q.pc = "done" /\ q.tot.teamWrites = 1) =>
             /\ Len(q.t_ret[1].employee_stats) = Len(q.emp)
             /\ \A i \in 1..Len(q.emp) :
                   /\ q.t_ret[1].employee_stats[i].employee_id = q.emp[i].employee_id
                   /\ RatedAs(q.rated, q.t_ret[1].employee_stats[i])
             /\ stored # None
             /\ stored[1].employee_stats = q.t_ret[1].employee_stats

C8_Witness ==
    \E p \in Procs :
       LET q == proc[p] IN
       /\ q.kind = "team" /\ q.pc = "done" /\ q.tot.teamWrites = 1
       /\ Len(q.emp) = 2
       /\ \E i, j \in 1..2 :
             /\ \A k \in 1..Len(q.rated) :
                   q.rated[k].employee_id # q.emp[i].employee_id
             /\ q.t_ret[1].employee_stats[i].rating = 3
             /\ \E k \in 1..Len(q.rated) :
                   q.rated[k].employee_id = q.emp[j].employee_id
             /\ q.t_ret[1].employee_stats[j].rating = 4
       /\ get_team_sprint_report_by_id(q.t_tracker, q.sprint_id) # None

(* C9: a team generation that missed the stored report has called          *)
(* rate_team_performance not at all before the last employee's report is   *)
(* collected and exactly once from then on, before the team report is      *)
(* written; a request answered from the stored team report never calls it. *)
C9_OneRatingCall ==
    \A p \in Procs :
       LET q == proc[p] IN
       q.kind = "team" =>
          /\ q.pc \in {"t_role", "t_check", "t_setup", "t_rate", "t_collect",
                       "i_prepare", "i_check", "i_hit", "i_miss", "i_llm",
                       "i_save", "i_commit"} => q.tot.rate = 0
          /\ q.pc \in {"t_save", "t_commit"} =>
                /\ q.tot.rate = 1 /\ q.tot.teamWrites = 0
                /\ q.tot.subDone = Len(q.t_users)
          /\ (q.pc = "done" /\ q.tot.teamWrites = 1) =>
                q.tot.rate = 1 /\ q.tot.subDone = Len(q.emp)
          /\ (q.pc = "done" /\ q.tot.teamWrites = 0) => q.tot.rate = 0
          /\ q.tot.rate <= 1

C9_Witness ==
    \E p \in Procs :
       LET q == proc[p] IN
       /\ q.kind = "team" /\ q.pc = "done" /\ q.tot.teamWrites = 1
       /\ q.tot.rate = 1 /\ q.tot.subDone = 2

(* C10: generate_employee_recommendations returns the first min(3, n) of   *)
(* the n recommendations the model answered, in the model's order.         *)
C10_FirstThree ==
    recOut # None =>
       LET out == recOut[1]
           n == Len(recIn)
       IN  /\ Len(out) = (IF n < 3 THEN n ELSE 3)
           /\ Len(out) <= 3
           /\ \A i \in 1..Len(out) : out[i] = recIn[i]

C10_Witness ==
    /\ recOut # None
    /\ Len(recIn) = 4 /\ Len(recOut[1]) = 3
    /\ recIn[1] # recIn[2] /\ recIn[4] # recIn[3]
    /\ recOut[1] = SubSeq(recIn, 1, 3)

(* C11: the comparison of current with previous has no previous and no     *)
(* change_percent when previous is absent; change_percent 100 when         *)
(* previous is 0 and current > 0; 0 when both are 0; otherwise             *)
(* (current - previous) / previous * 100.                                  *)
C11_PercentChange ==
    argOut # None =>
       LET c == argIn.current
           pv == argIn.previous
           m == argOut[1]
           ch == m.change_percent
       IN  /\ m.current = c
           /\ pv = None => (m.previous = None /\ ch = None)
           /\ pv # None =>
                /\ m.previous = pv /\ ch # None
                /\ (pv[1] = 0 /\ c[1] > 0) => (ch[1] = 100 /\ ch[2] = 1)
                /\ (pv[1] = 0 /\ c[1] = 0) => (ch[1] = 0 /\ ch[2] = 1)
                /\ pv[1] # 0 =>
                     ch[1] * (c[2] * pv[1])
                        = ch[2] * 100 * (c[1] * pv[2] - pv[1] * c[2])

C11_Witness ==
    /\ argOut # None
    /\ argIn.current = Frac(1, 2) /\ argIn.previous = Frac(2, 1)
    /\ argOut[1].change_percent = Frac(-75, 1)

(* C12: in every report generate_sprint_report returns, in every team      *)
(* report returned and in every stored team report, each metric has        *)
(* previous and change_percent both set or both unset.                     *)
BothOrNeither(m) == (m.previous = None) <=> (m.change_percent = None)

MetricsPaired(e) ==
    /\ BothOrNeither(e.story_points_closed)
    /\ BothOrNeither(e.tasks_completed)
    /\ BothOrNeither(e.deadlines_missed)
    /\ BothOrNeither(e.average_task_completion_time)

C12_PreviousAndChangeTogether ==
    /\ \A p \in Procs :
          LET q == proc[p] IN
          /\ q.ret # None => MetricsPaired(q.ret[1])
          /\ q.t_ret # None =>
                \A i \in 1..Len(q.t_ret[1].employee_stats) :
                   MetricsPaired(q.t_ret[1].employee_stats[i])
    /\ \A r \in teamReports :
          \A i \in 1..Len(r.employee_stats) : MetricsPaired(r.employee_stats[i])

C12_Witness ==
    \E r \in teamReports :
       \E i \in 1..Len(r.employee_stats) :
          LET e == r.employee_stats[i] IN
          /\ e.deadlines_missed.previous = Flt(0)
          /\ e.deadlines_missed.change_percent = Flt(100)
          /\ e.story_points_closed.previous # None
          /\ e.story_points_closed.change_percent # None

(* resolved_at later than the deadline: the deadline is the start of its day *)
ResolvedAfter(task) ==
    \/ task.resolved_at[1] > task.deadline[1]
    \/ task.resolved_at[1] = task.deadline[1] /\ task.resolved_at[2] > 0

MissedDeadline(task, today) ==
    /\ task.deadline # None
    /\ \/ task.status_key = "done" /\ task.resolved_at # None /\ ResolvedAfter(task)
       \/ task.deadline[1] < today

DoneTasks(tasks) == {i \in 1..Len(tasks) : tasks[i].status_key = "done"}

RECURSIVE SumStoryPoints(_)
SumStoryPoints(tasks) ==
    IF tasks = <<>> THEN 0
    ELSE (IF Head(tasks).story_points = None THEN 0 ELSE Head(tasks).story_points[1])
         + SumStoryPoints(Tail(tasks))

(* C13: for every task list whose logged times the tracker answers,        *)
(* _process_tasks returns stats whose deadlines_missed is the number of    *)
(* tasks with a deadline that are done and resolved after it, or whose     *)
(* deadline is before the current date.                                    *)
C13_DeadlinesMissed ==
    (argOut # None /\ argIn.logged # None) =>
       /\ argOut[1].outcome = "ok"
       /\ argOut[1].stats.deadlines_missed =
             Flt(Cardinality({i \in 1..Len(argIn.tasks) :
                                 MissedDeadline(argIn.tasks[i], argIn.today)}))

(* C14: for every task list whose logged times the tracker answers, the    *)
(* stats are the sum of story points, the number of tasks and the logged   *)
(* hours of the done tasks over the number of all tasks (0 for the empty   *)
(* list), with one logged-time fetch per done task and no other.           *)
C14_AggregatedStats ==
    (argOut # None /\ argIn.logged # None) =>
       LET tasks == argIn.tasks
           n == Len(tasks)
           done == Cardinality(DoneTasks(tasks))
           out == argOut[1]
           avg == out.stats.average_completion_time
       IN  /\ out.outcome = "ok"
           /\ out.stats.total_story_points = Flt(SumStoryPoints(tasks))
           /\ out.stats.total_tasks = Flt(n)
           /\ n = 0 => avg = Flt(0)
           /\ avg[1] * argIn.logged[2] * n = avg[2] * argIn.logged[1] * done
           /\ out.fetched = done

(* C15: a structured LLM call whose transport fails, whose result is not   *)
(* a GPTModelResult, has no alternatives, has an empty text, a text that   *)
(* is not JSON or does not fit the schema, raises ConnectionError (503 at  *)
(* the endpoint) and returns nothing.                                      *)
LlmAnswerFails(a) ==
    \/ a.raises # ""
    \/ ~a.is_result
    \/ a.alternatives = 0
    \/ ~a.is_alternative
    \/ a.text \in {"", "not json", "{}"}

C15_OneFailureKind ==
    argOut # None =>
       IF LlmAnswerFails(argIn)
       THEN /\ argOut[1].raised = "ConnectionError"
            /\ argOut[1].value = None
            /\ argOut[1].status = 503
       ELSE argOut[1].raised = "" /\ argOut[1].value # None

C15_Witness ==
    /\ argOut # None
    /\ argIn.raises = "" /\ argIn.is_result /\ argIn.alternatives = 1
    /\ argIn.is_alternative /\ argIn.text = "{}"
    /\ argOut[1].raised = "ConnectionError" /\ argOut[1].status = 503

(* C16: every entry of every stored team report has a rating in 1..5; a    *)
(* rating answer with a rating outside 1..5 fails the rating call with     *)
(* ConnectionError, is not clamped into a report, and leaves no team       *)
(* report for the tracker and sprint.                                      *)
RatingInRange(e) == e.rating \in 1..5

C16_RatingsInRange ==
    /\ \A r \in teamReports :
          \A i \in 1..Len(r.employee_stats) : RatingInRange(r.employee_stats[i])
    /\ \A p \in Procs :
          LET q == proc[p] IN
          /\ (q.kind = "team" /\ q.pc \in {"t_save", "t_commit"}) =>
                /\ \A i \in 1..Len(q.rated) : RatingInRange(q.rated[i])
                /\ \A i \in 1..Len(q.final) : RatingInRange(q.final[i])
          /\ (q.kind = "team" /\ q.pc = "failed" /\ q.rated # <<>>) =>
                /\ \E i \in 1..Len(q.rated) : ~RatingInRange(q.rated[i])
                /\ q.err[1].type = "ConnectionError"
                /\ TeamStatus(q.err[1]) = 503
                /\ q.tot.teamWrites = 0
                /\ get_team_sprint_report_by_id(q.t_tracker, q.sprint_id) = None

C16_Witness ==
    \E p \in Procs :
       LET q == proc[p] IN
       /\ q.kind = "team" /\ q.pc = "failed"
       /\ \E i \in 1..Len(q.rated) : q.rated[i].rating = 6
       /\ get_team_sprint_report_by_id(q.t_tracker, q.sprint_id) = None
       /\ teamReports # {}

(* C17: a tracker failure during an individual report request answers 404  *)
(* when the tracker reports the sprint as not found and 503 for any other  *)
(* failure of fetching the sprint, the tasks or the logged time.           *)
C17_TrackerFailureClassKept ==
    \A p \in Procs :
       LET q == proc[p] IN
       (/\ q.kind = "ind" /\ q.pc = "failed"
        /\ q.err[1].why \in {"sprint", "tasks", "worklog"})
       => IndividualStatus(q.err[1]) =
             (IF q.err[1].why = "sprint" /\ q.err[1].code = 404 THEN 404 ELSE 503)

(* C18: a request whose authenticated user id has no user record answers   *)
(* 404, having made no tracker call, no LLM call and no store write.       *)
C18_UnknownUserNotFound ==
    \A p \in Procs :
       LET q == proc[p] IN
       (q.kind = "ind" /\ q.pc = "failed" /\ get_by_id(q.requester) = None)
       => /\ IndividualStatus(q.err[1]) = 404
          /\ q.tot = NoTotals
          /\ q.inv = NoCalls

CurrentRows(user_id) == {a \in utr : a.user_id = user_id /\ a.is_current}

(* C20: in every state reachable through set_current_tracker calls, two    *)
(* concurrent calls for one user with different trackers included, each    *)
(* user has at most one association with is_current = true, and a call     *)
(* that completed returned with the tracker it named as the user's only    *)
(* current one.                                                            *)
C20_OneCurrentTracker ==
    /\ \A u \in Users : Cardinality(CurrentRows(u)) <= 1
    /\ \A p \in Procs :
          setCur.call[p].pc = "done"
          => setCur.call[p].current = {setCur.call[p].tracker_id}

(* the step is a completed API operation of the given kind *)
ApiStep(op) ==
    apiLog'.n = apiLog.n + 1 /\ apiLog'.last.op = op /\ apiLog'.last.status = 200

(* C21: PUT /trackers/current/{tracker_id} assigns the role employee only  *)
(* when the user has no role on that tracker yet; a role the user already  *)
(* has on it (manager, say) is left unchanged.                             *)
C21_PutKeepsRole ==
    [][ApiStep("put_current")
       => LET u == apiLog'.last.user
              t == apiLog'.last.tracker
              before == get_user_role_for_tracker(utr, u, t)
              after == get_user_role_for_tracker(utr', u, t)
          IN  after = IF before = None THEN <<"employee">> ELSE before]_vars

(* C28: a user's role on a tracker becomes manager only by creating a      *)
(* tracker that did not exist before, or by update_role performed by a     *)
(* manager of that tracker; update_role refused (non-manager, or targeting *)
(* oneself) changes no role.                                               *)
C28_ManagerOnlyByCreationOrGrant ==
    [][/\ \A u \in Users, t \in 1..MaxTrackers :
            (get_user_role_for_tracker(utr', u, t) = <<"manager">>
             /\ get_user_role_for_tracker(utr, u, t) # <<"manager">>)
            => \/ /\ ApiStep("create_tracker")
                  /\ apiLog'.last.user = u /\ apiLog'.last.tracker = t
                  /\ ~\E x \in trackers : x.id = t
               \/ /\ ApiStep("update_role")
                  /\ apiLog'.last.target = u /\ apiLog'.last.tracker = t
                  /\ get_user_role_for_tracker(utr, apiLog'.last.user, t)
                        = <<"manager">>
       /\ (apiLog'.n = apiLog.n + 1 /\ apiLog'.last.op = "update_role"
           /\ apiLog'.last.status = 403)
          => utr' = utr]_vars

(* C22: a team report generation that fails with an analysis (LLM)         *)
(* failure, in the rating call or in an employee's sub-generation, has     *)
(* written nothing to the store: no individual report row and no team      *)
(* report row was committed during the invocation.                         *)
C22_NoWriteBeforeLlmFailure ==
    \A p \in Procs :
       LET q == proc[p] IN
       (q.kind = "team" /\ q.pc = "failed" /\ q.err[1].type = "ConnectionError")
       => (q.tot.indWrites = 0 /\ q.tot.teamWrites = 0)

(* C23: after a team report generation for the requester's tracker T and   *)
(* sprint S that missed the cache and completed, the store holds, for      *)
(* every user bound to T, an individual report keyed (user, T, S), also    *)
(* when that user's own current tracker is not T.                          *)
C23_TeamLeavesIndividualReports ==
    \A p \in Procs :
       LET q == proc[p]
           users == get_users_for_tracker(q.t_tracker)
       IN  (q.kind = "team" /\ q.pc = "done" /\ q.tot.teamWrites = 1)
           => \A i \in 1..Len(users) :
                 get_sprint_report_by_id(users[i], q.t_tracker, q.sprint_id) # None

(* the positions of the list that sort before position i by start date,    *)
(* equal dates keeping their listed order                                  *)
SortsBefore(all, i) ==
    {j \in 1..Len(all) :
        \/ all[j].start_date < all[i].start_date
        \/ all[j].start_date = all[i].start_date /\ j < i}

(* C24: in team report generation the previous sprint is the sprint        *)
(* immediately preceding the target in ascending start-date order among    *)
(* the sprints the tracker lists; it is absent when the target is the      *)
(* earliest sprint or is not listed, and then the previous-stats bundle    *)
(* passed to the rating call is no data.                                   *)
C24_PreviousSprint ==
    argOut # None =>
       LET all == argIn.all_sprints
           at == {i \in 1..Len(all) : all[i].id = argIn.sprint_id}
           prev == argOut[1].prev_sprint
       IN  /\ at = {} => prev = None
           /\ \A i \in at :
                 /\ prev = None <=> SortsBefore(all, i) = {}
                 /\ prev # None =>
                       \E j \in SortsBefore(all, i) :
                          /\ all[j] = prev[1]
                          /\ \A k \in SortsBefore(all, i) : k \in SortsBefore(all, j) \/ k = j
           /\ prev = None => argOut[1].prev_employee_stats = None

C24_Witness ==
    /\ argOut # None
    /\ argOut[1].prev_sprint # None
    /\ argOut[1].prev_employee_stats # None
    /\ Len(argIn.all_sprints) = 3
    /\ argIn.all_sprints[1].start_date > argIn.all_sprints[3].start_date

(* the stored reports of the user and tracker that began before the date *)
EarlierOf(user_id, tracker_id, d) ==
    {r \in reports : r.user_id = user_id /\ r.tracker_id = tracker_id
                     /\ r.sprint_start_date < d}

(* C25: get_previous_sprint_report(user, tracker, d) returns the stored    *)
(* report of that user and tracker with the greatest sprint_start_date     *)
(* strictly less than d, or none when there is no such report; it never    *)
(* returns a report that starts on or after d, nor one of another user or  *)
(* tracker.                                                                *)
C25_PreviousReport ==
    argOut # None =>
       LET found == argOut[1]
           earlier == EarlierOf(argIn.user_id, argIn.tracker_id,
                                argIn.sprint_start_date)
       IN  /\ found = None <=> earlier = {}
           /\ found # None =>
                 /\ found[1] \in reports
                 /\ found[1].user_id = argIn.user_id
                 /\ found[1].tracker_id = argIn.tracker_id
                 /\ found[1].sprint_start_date < argIn.sprint_start_date
                 /\ \A o \in earlier :
                       o.sprint_start_date <= found[1].sprint_start_date

C25_Witness ==
    /\ argOut # None
    /\ argOut[1] # None
    /\ \E r \in reports : /\ r.user_id = argIn.user_id
                          /\ r.tracker_id = argIn.tracker_id
                          /\ r.sprint_start_date = argIn.sprint_start_date
    /\ \E r \in reports : /\ r.user_id # argIn.user_id
                          /\ r.sprint_start_date < argIn.sprint_start_date
                          /\ r.sprint_start_date > argOut[1][1].sprint_start_date

OtherKeys(rows, a) ==
    {r \in rows : ~(r.user_id = a.user_id /\ r.tracker_id = a.tracker_id
                    /\ r.sprint_id = a.sprint.id)}

(* C26: after save_or_update_sprint_report(key, fields) returned,          *)
(* get_sprint_report_by_id(key) yields a record whose sprint name, start   *)
(* and end dates, four metric values, activity_analysis and                *)
(* recommendations equal the supplied fields, whether or not a record of   *)
(* the key existed before; the records of other keys are unchanged.        *)
C26_UpsertRoundTrip ==
    (argOut # None /\ argOut[1].read # None) =>
       LET a == argIn.fields
           q == UpsertCall(a, None)
           m == q.metrics[1]
           got == argOut[1].read[1]
       IN  /\ got # None
           /\ got[1].sprint_name = a.sprint.name
           /\ got[1].sprint_start_date = a.sprint.start_date
           /\ got[1].sprint_end_date = a.sprint.end_date
           /\ got[1].story_points_closed = m.story_points_closed.current
           /\ got[1].tasks_completed = m.tasks_completed.current
           /\ got[1].deadlines_missed = m.deadlines_missed.current
           /\ got[1].average_task_completion_time
                 = m.average_task_completion_time.current
           /\ got[1].activity_analysis = q.activity
           /\ LoadAll(got[1].recommendations) = a.recommendations
           /\ OtherKeys(reports, a) = OtherKeys(argIn.before, a)

(* the stored report of the call's key, the tracker being the user's       *)
(* current one                                                             *)
StoredForCall(q) ==
    get_sprint_report_by_id(q.user, get_user_current_tracker(q.user)[1],
                            q.sprint_id)

(* C27: on a cache hit the outcome does not depend on the task list and    *)
(* the logged times the tracker answers: a call for a key that was stored  *)
(* before it, which the tracker answered successfully, returns the stored  *)
(* current metric values, activity_analysis and recommendations.           *)
C27_HitIgnoresTracker ==
    \A p \in Procs :
       LET q == proc[p]
           row == StoredForCall(q)[1]
       IN  (/\ q.kind = "ind" /\ q.pc \in {"done", "failed"}
            /\ get_user_current_tracker(q.user) # None
            /\ StoredForCall(q) # None
            /\ q.inv.writes = 0
            /\ q.pc = "failed" => q.err[1].type # "HTTPException")
           => /\ q.pc = "done"
              /\ q.ret[1].story_points_closed.current = row.story_points_closed
              /\ q.ret[1].tasks_completed.current = row.tasks_completed
              /\ q.ret[1].deadlines_missed.current = row.deadlines_missed
              /\ q.ret[1].average_task_completion_time.current
                    = row.average_task_completion_time
              /\ q.ret[1].activity_analysis = row.activity_analysis
              /\ q.ret[1].recommendations = LoadAll(row.recommendations)

(* C29: _process_tasks returns a SprintStats without error for every list  *)
(* of tasks that satisfy the Task model, a task with status done and a     *)
(* deadline but no resolved_at included (the logged times being answered). *)
C29_ProcessTasksTotal ==
    (argOut # None /\ argIn.logged # None
     /\ \E i \in 1..Len(argIn.tasks) : argIn.tasks[i] = TaskDoneUnresolved)
    => (argOut[1].outcome = "ok" /\ argOut[1].stats # None)

(* the rating the answer gives the employee id: that of the id's last      *)
(* item, 3 when the answer has no item of the id                           *)
RatingOfId(llm_result, id) ==
    LET mine == {i \in 1..Len(llm_result) : llm_result[i].employee_id = id}
    IN  IF mine = {} THEN 3
        ELSE llm_result[CHOOSE i \in mine : \A j \in mine : j <= i].rating

(* C30: the employee_stats of a newly generated team report has exactly    *)
(* one entry per user bound to the tracker, in the order the users were    *)
(* listed, each with the four metrics of that user's individual report for *)
(* the sprint; rating items for ids that are in no team add no entry and   *)
(* change nobody's rating.                                                 *)
C30_OneEntryPerUser ==
    \A p \in Procs :
       LET q == proc[p]
           users == get_users_for_tracker(q.t_tracker)
           stats == q.t_ret[1].employee_stats
       IN  (q.kind = "team" /\ q.pc = "done" /\ q.tot.teamWrites = 1)
           => /\ Len(stats) = Len(users)
              /\ \A i \in 1..Len(users) :
                    LET row == get_sprint_report_by_id(
                                  users[i], get_user_current_tracker(users[i])[1],
                                  q.sprint_id)
                    IN  /\ stats[i].employee_id = str(users[i])
                        /\ row # None
                        /\ stats[i].story_points_closed = q.emp[i].story_points_closed
                        /\ stats[i].tasks_completed = q.emp[i].tasks_completed
                        /\ stats[i].deadlines_missed = q.emp[i].deadlines_missed
                        /\ stats[i].average_task_completion_time
                              = q.emp[i].average_task_completion_time
                        /\ stats[i].story_points_closed.current
                              = row[1].story_points_closed
                        /\ stats[i].tasks_completed.current = row[1].tasks_completed
                        /\ stats[i].deadlines_missed.current
                              = row[1].deadlines_missed
                        /\ stats[i].average_task_completion_time.current
                              = row[1].average_task_completion_time
                        /\ stats[i].rating = RatingOfId(q.rated, str(users[i]))

C30_Witness ==
    \E p \in Procs :
       LET q == proc[p] IN
       /\ q.kind = "team" /\ q.pc = "done" /\ q.tot.teamWrites = 1
       /\ Len(q.t_ret[1].employee_stats) = 2
       /\ \E k \in 1..Len(q.rated) : q.rated[k].employee_id = "7"
       /\ q.t_ret[1].employee_stats[1].rating = 3
       /\ q.t_ret[1].employee_stats[2].rating = 4

====
